---- MODULE Spec2Model ----
(***************************************************************************)
(* PhysioBridge: the Polar UDP worker and the utilities it drives          *)
(* (StreamMetrics, LSLRegistry, ClockSync, PingPong, the Polar translator),*)
(* the HKH serial worker, the LSL mirror and the supervisor that starts    *)
(* and stops the three workers.                                            *)
(*                                                                         *)
(* JSON values are records [t, s, n, w]: t is the Python type of the value *)
(* ("null", "str", "int", "float", "list"), s the text of a string, n the  *)
(* value of a number (or the length of a list) and w the width of the rows *)
(* of a list of rows (0 for a list of numbers).  A JSON object is a        *)
(* function from field names to JSON values.  Times are rationals; float   *)
(* rounding is not modelled.                                               *)
(***************************************************************************)
EXTENDS Integers, Sequences, FiniteSets, TLC

VARIABLES
  metrics,    \* StreamMetrics instance: the six dictionaries of __init__
  lsl,        \* the LSLRegistry, the ClockSync and the pushes on numeric outlets
  now,        \* the host clock (monotonic, LSL and wall time), in seconds
  steps,      \* number of operations performed so far
  seen,       \* history: per key, the integer seq values observe has processed
  last,       \* history: the latest operation, its arguments and its result
  log,        \* history: the ensure calls, or per device the latest map_event_ts calls
  hub,        \* the Polar worker: position, counters, base outlets, files, ping-pong
  rx,         \* history: the datagrams the worker has received
  hkh,        \* the HKH worker: position, serial port, outlet, preview CSV
  mirror,     \* the mirror: position, inlets, writers, session files
  sup         \* the supervisor: position, stop flag, ready flags of its children

vars == <<metrics, lsl, now, steps, seen, last, log, hub, rx, hkh, mirror, sup>>

-----------------------------------------------------------------------------
(* Bounds *)
MaxObs == 4        \* observe calls per behaviour
MaxSeq == 3        \* seq values are 0..MaxSeq
MaxEnsure == 3     \* ensure calls per behaviour
MaxClk == 3        \* map_event_ts calls per behaviour
MaxHandle == 3     \* handle calls per behaviour
MaxDgram == 3      \* datagrams per behaviour
MaxPP == 4         \* PingPong calls per behaviour
MaxHkh == 5        \* HKH loop iterations and byte arrivals per behaviour
MaxMirror == 3     \* mirror loop iterations per behaviour
MaxSuite == 2      \* loop iterations of each worker per behaviour of the suite
MaxLines == 2      \* output lines of each child per behaviour

-----------------------------------------------------------------------------
(* JSON values *)
JNull     == [t |-> "null",  s |-> "", n |-> 0, w |-> 0]
JStr(x)   == [t |-> "str",   s |-> x,  n |-> 0, w |-> 0]
JInt(x)   == [t |-> "int",   s |-> "", n |-> x, w |-> 0]
JFlt(x)   == [t |-> "float", s |-> "", n |-> x, w |-> 0]
JList(len, width) == [t |-> "list", s |-> "", n |-> len, w |-> width]

isStr(x) == x.t = "str"
isInt(x) == x.t = "int"
isNum(x) == x.t \in {"int", "float"}
isList(x) == x.t = "list"

\* dict.get(k): the value, or None
Get(obj, k) == IF k \in DOMAIN obj THEN obj[k] ELSE JNull

\* Python truthiness, as used by "a or b"
Truthy(x) ==
  CASE x.t = "null" -> FALSE
    [] x.t = "str"  -> x.s # ""
    [] x.t = "list" -> x.n > 0
    [] OTHER        -> x.n # 0

PyOr(a, b) == IF Truthy(a) THEN a ELSE b

-----------------------------------------------------------------------------
(* stream_metrics.py *)
CONTROL_TYPES_no_pong == {"ping", "hub_status"}

CONTROL_TYPES == {"ping", "pong", "hub_status"}
win_short == 10
win_long  == 60

NoKey == <<>>

_key_unknown(j) ==
  LET typ == Get(j, "type")
      dev == PyOr(PyOr(PyOr(Get(j, "device"), Get(j, "deviceLabel")), Get(j, "deviceId")),
                  JStr("Unknown"))
  IN  IF ~isStr(typ) \/ ~isStr(dev) THEN NoKey ELSE <<dev.s, typ.s>>

\* StreamMetrics._key: (device, type), or None
_key(j) ==
  LET typ == Get(j, "type")
      dev == PyOr(PyOr(Get(j, "device"), Get(j, "deviceLabel")), Get(j, "deviceId"))
  IN  IF ~isStr(typ) \/ ~isStr(dev) THEN NoKey ELSE <<dev.s, typ.s>>

\* the while loops of _Win._prune: pop from the left while older than cutoff
RECURSIVE PopArrivals(_, _)
PopArrivals(dq, cutoff) ==
  IF dq # <<>> /\ Head(dq) < cutoff THEN PopArrivals(Tail(dq), cutoff) ELSE dq

RECURSIVE PopSamples(_, _)
PopSamples(dq, cutoff) ==
  IF dq # <<>> /\ Head(dq)[1] < cutoff THEN PopSamples(Tail(dq), cutoff) ELSE dq

_prune(win, t) ==
  [win EXCEPT !.arrivals = PopArrivals(@, t - win.seconds),
              !.samples  = PopSamples(@, t - win.seconds)]

add_arrival(win, t) == _prune([win EXCEPT !.arrivals = Append(@, t)], t)

add_samples(win, t, n, fs) ==
  _prune([win EXCEPT !.samples = Append(@, <<t, n, fs>>)], t)

_Win(seconds) == [seconds |-> seconds, arrivals |-> <<>>, samples |-> <<>>]

\* d[k] of a defaultdict
DefGet(d, k, dflt) == IF k \in DOMAIN d THEN d[k] ELSE dflt

\* d[k] = v of a dict
Put(d, k, v) == [x \in DOMAIN d \cup {k} |-> IF x = k THEN v ELSE d[x]]

StreamMetrics ==
  [last_seq |-> <<>>, pkts_recv |-> <<>>, pkts_miss |-> <<>>, pkts_ooo |-> <<>>,
   wins_s |-> <<>>, wins_l |-> <<>>]

\* the seq block of observe, lines 101-110
observe_seq(m, k, seq) ==
  IF ~isInt(seq) THEN m
  ELSE LET has  == k \in DOMAIN m.last_seq
           gap  == seq.n - m.last_seq[k] - 1
           miss == IF has /\ gap > 0
                   THEN Put(m.pkts_miss, k, DefGet(m.pkts_miss, k, 0) + gap)
                   ELSE m.pkts_miss
           ooo  == IF has /\ ~(gap > 0) /\ gap < 0
                   THEN Put(m.pkts_ooo, k, DefGet(m.pkts_ooo, k, 0) + 1)
                   ELSE m.pkts_ooo
       IN  [m EXCEPT !.pkts_miss = miss, !.pkts_ooo = ooo,
                     !.last_seq = Put(m.last_seq, k, seq.n)]

\* the window block of observe, lines 112-121
observe_win(m, k, j, t_mono) ==
  LET fs  == Get(j, "fs")
      n   == Get(j, "n")
      ws1 == add_arrival(DefGet(m.wins_s, k, _Win(win_short)), t_mono)
      wl1 == add_arrival(DefGet(m.wins_l, k, _Win(win_long)), t_mono)
      smp == isNum(fs) /\ isInt(n)
      ws2 == IF smp THEN add_samples(ws1, t_mono, n.n, fs.n) ELSE ws1
      wl2 == IF smp THEN add_samples(wl1, t_mono, n.n, fs.n) ELSE wl1
  IN  [m EXCEPT !.wins_s = Put(m.wins_s, k, ws2), !.wins_l = Put(m.wins_l, k, wl2)]

\* StreamMetrics.observe
observe(m, j, t_mono) ==
  LET typ == Get(j, "type")
      k   == _key(j)
  IN  IF isStr(typ) /\ typ.s \in CONTROL_TYPES THEN m
      ELSE IF k = NoKey THEN m
      ELSE LET m1 == [m EXCEPT !.pkts_recv = Put(m.pkts_recv, k, DefGet(m.pkts_recv, k, 0) + 1)]
               m2 == observe_seq(m1, k, Get(j, "seq"))
           IN  observe_win(m2, k, j, t_mono)

-----------------------------------------------------------------------------
(* Python string conversions, tabulated over the strings of the model *)
upper(s) ==
  CASE s = "hr"  -> "HR"  [] s = "Hr" -> "HR"
    [] s = "rr"  -> "RR"  [] s = "ppi" -> "PPI"
    [] s = "ecg" -> "ECG" [] s = "acc" -> "ACC" [] s = "Acc" -> "ACC"
    [] s = "ppg" -> "PPG" [] s = "Ppg" -> "PPG"
    [] s = "marker" -> "MARKER" [] s = "pong" -> "PONG"
    [] OTHER -> s

lower(s) ==
  CASE s = "HR"  -> "hr"  [] s = "Hr" -> "hr"
    [] s = "RR"  -> "rr"  [] s = "PPI" -> "ppi"
    [] s = "ECG" -> "ecg" [] s = "ACC" -> "acc" [] s = "Acc" -> "acc"
    [] s = "PPG" -> "ppg" [] s = "Ppg" -> "ppg"
    [] s = "PONG" -> "pong" [] s = "Marker" -> "marker"
    [] s = "STOP" -> "stop" [] s = "Stop" -> "stop"
    [] OTHER -> s

\* str.strip() of the type strings: " hr" is the one padded spelling
strip(s) == IF s = " hr" THEN "hr" ELSE s

\* str(x)
PyStr(x) ==
  CASE x.t = "str"   -> x.s
    [] x.t = "null"  -> "None"
    [] x.t = "int"   -> ToString(x.n)
    [] x.t = "float" -> ToString(x.n) \o ".0"
    [] OTHER         -> "[...]"

\* int(x) in "try: ch = int(ch_val) except: ch = 0"
IntOr0(x) ==
  CASE x.t \in {"int", "float"} -> x.n
    [] x.t = "str" /\ x.s = "2" -> 2
    [] x.t = "str" /\ x.s = "3" -> 3
    [] OTHER -> 0

-----------------------------------------------------------------------------
(* Exact time arithmetic: a time is num / AlphaDen^exp, kept in lowest form *)
AlphaNum == 1      \* alpha = 0.05 = AlphaNum / AlphaDen
AlphaDen == 20
clamp_s  == 1

RECURSIVE Pow(_, _)
Pow(b, e) == IF e = 0 THEN 1 ELSE b * Pow(b, e - 1)

RECURSIVE QNorm(_)
QNorm(q) ==
  IF q.exp > 0 /\ q.num % AlphaDen = 0
  THEN QNorm([num |-> q.num \div AlphaDen, exp |-> q.exp - 1])
  ELSE q

QInt(n) == [num |-> n, exp |-> 0]
QMax(a, b) == IF a >= b THEN a ELSE b
QAt(q, e) == q.num * Pow(AlphaDen, e - q.exp)
QAdd(a, b) ==
  LET e == QMax(a.exp, b.exp) IN QNorm([num |-> QAt(a, e) + QAt(b, e), exp |-> e])
QSub(a, b) ==
  LET e == QMax(a.exp, b.exp) IN QNorm([num |-> QAt(a, e) - QAt(b, e), exp |-> e])
QLess(a, b) == LET e == QMax(a.exp, b.exp) IN QAt(a, e) < QAt(b, e)
QLeq(a, b)  == LET e == QMax(a.exp, b.exp) IN QAt(a, e) <= QAt(b, e)
QAbs(a) == IF a.num < 0 THEN [a EXCEPT !.num = -a.num] ELSE a
\* q * k / AlphaDen
QFrac(q, k) == QNorm([num |-> q.num * k, exp |-> q.exp + 1])

-----------------------------------------------------------------------------
(* clock_sync.py *)
_OffsetEWMA == [inited |-> FALSE, offset |-> QInt(0)]

\* the first sample blended into the initial offset 0.0 like any later one
update_blend_first(e, sample_offset) ==
  [inited |-> TRUE,
   offset |-> QAdd(QFrac(e.offset, AlphaDen - AlphaNum), QFrac(sample_offset, AlphaNum))]

update_noclamp(e, sample_offset) ==
  IF e.inited
  THEN [e EXCEPT !.offset = QAdd(QFrac(e.offset, AlphaDen - AlphaNum),
                                 QFrac(sample_offset, AlphaNum))]
  ELSE [inited |-> TRUE, offset |-> sample_offset]

\* _OffsetEWMA.update: the estimator after the update (it returns .offset)
update(e, sample_offset) ==
  IF e.inited
  THEN LET delta == QSub(sample_offset, e.offset)
           s     == IF QLess(QInt(clamp_s), QAbs(delta))
                    THEN IF QLess(QInt(0), delta)
                         THEN QAdd(e.offset, QInt(clamp_s))
                         ELSE QSub(e.offset, QInt(clamp_s))
                    ELSE sample_offset
       IN  [e EXCEPT !.offset = QAdd(QFrac(e.offset, AlphaDen - AlphaNum), QFrac(s, AlphaNum))]
  ELSE [inited |-> TRUE, offset |-> sample_offset]

ClockSync == [_per_device |-> <<>>]

\* ClockSync._get
_get(c, device) ==
  IF device \in DOMAIN c._per_device THEN c
  ELSE [c EXCEPT !._per_device = Put(@, device, _OffsetEWMA)]

with_update_shared(c1, device, sample_offset) ==
  [c1 EXCEPT !._per_device = [d \in DOMAIN @ |-> update(@[d], sample_offset)]]

\* lines 77: the offset of the device updated with one sample
with_update(c1, device, sample_offset) ==
  [c1 EXCEPT !._per_device[device] = update(@, sample_offset)]

\* lines 80-85: the mapped time, te or t_device plus the offset
mapped(c2, device, t_device, te, ts_arrival) ==
  IF te.t # "null" /\ ~isNum(te)
  THEN [clock |-> c2, ts |-> ts_arrival, raised |-> TRUE]
  ELSE [clock |-> c2, raised |-> FALSE,
        ts |-> IF te.t # "null" THEN QAdd(QInt(te.n), c2._per_device[device].offset)
               ELSE QAdd(QInt(t_device.n), c2._per_device[device].offset)]

\* ClockSync.map_event_ts(device, t_device, te, ts_arrival); t_device and te
\* are JSON values, ts_arrival a time.  float() of a value that is not a
\* number raises.
map_event_ts(c, device, t_device, te, ts_arrival) ==
  IF t_device.t = "null"
  THEN [clock |-> c, ts |-> ts_arrival, raised |-> FALSE]
  ELSE IF ~isNum(t_device)
  THEN [clock |-> _get(c, device), ts |-> ts_arrival, raised |-> TRUE]
  ELSE mapped(with_update(_get(c, device), device, QSub(ts_arrival, QInt(t_device.n))),
              device, t_device, te, ts_arrival)

-----------------------------------------------------------------------------
(* lsl_registry.py *)
session_label == ""     \* CONFIG["NAME_SUFFIX"]

LSLRegistry == [_outlets |-> <<>>, _infos |-> <<>>, nmade |-> 0]

\* LSLRegistry._key
reg_key(typ, device) == upper(typ) \o "::" \o device

has_outlet_never(r, key) == FALSE

\* "key in self._outlets"
has_outlet(r, key) == key \in DOMAIN r._outlets

\* LSLRegistry.ensure: the registry after the call and the outlet returned.
\* An outlet object is identified by its creation number.
ensure(r, typ, device, channels, srate, units) ==
  LET key == reg_key(typ, device)
  IN  IF has_outlet(r, key)
      THEN [reg |-> r, outlet |-> r._outlets[key], created |-> FALSE, raised |-> FALSE]
      ELSE LET id   == r.nmade + 1
               info == [name |-> "PB_" \o upper(typ) \o "_" \o device \o session_label,
                        stype |-> upper(typ), channels |-> channels, srate |-> srate,
                        units |-> units,
                        source_id |-> "pb_" \o typ \o "_" \o device]
           IN  [reg |-> [_outlets |-> Put(r._outlets, key, id),
                         _infos |-> Put(r._infos, key, info), nmade |-> id],
                outlet |-> id, created |-> TRUE, raised |-> FALSE]

-----------------------------------------------------------------------------
(* json_guard.py *)
\* f(x): float(x) for a number, else None
f(x) == IF isNum(x) THEN JFlt(x.n) ELSE JNull

\* rows_as_float(mat, ch): the number of rows kept.  The rows of a list are
\* numeric and of one width w (w = 0: the elements are numbers, not rows).
rows_as_float(mat, ch) ==
  IF ~isList(mat) \/ ch <= 0 THEN 0
  ELSE IF mat.w >= ch /\ mat.w > 0 THEN mat.n ELSE 0

-----------------------------------------------------------------------------
(* polar_numberic.py *)
\* env is the state a translator works on: the registry, the clock and
\* what has been pushed on each numeric outlet.
Env0 == [registry |-> LSLRegistry, clock |-> ClockSync, pushed |-> <<>>]

Ret(env, ret) == [env |-> env, ret |-> ret, raised |-> FALSE]
Raise(env)    == [env |-> env, ret |-> FALSE, raised |-> TRUE]

\* out.push_sample / out.push_chunk on the outlet ensure returned
Push(env, r, item) ==
  [env EXCEPT !.registry = r.reg,
              !.pushed = Put(@, r.outlet, Append(DefGet(@, r.outlet, <<>>), item))]

kinds == {"rr", "ppi", "hr", "ecg", "acc", "ppg"}

\* the test of line 21
known_type(typ) == typ \in kinds

\* ensure the outlet, push one sample stamped m.ts on it, return True
emit_sample(env, m, typ, device, channels, units) ==
  Ret(Push([env EXCEPT !.clock = m.clock],
           ensure(env.registry, typ, device, channels, 0, units),
           [kind |-> "sample", rows |-> 1, width |-> channels, ts |-> m.ts]), TRUE)

\* ensure the outlet, push one chunk of rows on it, return True
emit_chunk(env, typ, device, channels, srate, units, rows) ==
  IF rows = 0 THEN Ret(env, FALSE)
  ELSE Ret(Push(env, ensure(env.registry, typ, device, channels, srate, units),
                [kind |-> "chunk", rows |-> rows, width |-> channels, ts |-> QInt(0)]), TRUE)

\* lines 47-58, after map_event_ts returned m (or raised)
ppi_mapped(env, m, te, device) ==
  IF m.raised THEN Raise([env EXCEPT !.clock = m.clock])
  ELSE IF te.t # "null" /\ ~isNum(te)
  THEN Raise([env EXCEPT !.clock = m.clock,
                         !.registry = ensure(env.registry, "ppi", device, 6, 0,
                              "ms,quality,blocker,skinContact,skinSupported,te").reg])
  ELSE emit_sample(env, m, "ppi", device, 6,
                   "ms,quality,blocker,skinContact,skinSupported,te")

ppi_device(obj) == IF "device" \in DOMAIN obj THEN PyStr(obj["device"]) ELSE "Polar"

handle_ppi(env, obj, host_ts) ==
  IF f(Get(obj, "ms")).t = "null" THEN Ret(env, FALSE)
  ELSE ppi_mapped(env,
                  map_event_ts(env.clock, ppi_device(obj), Get(obj, "t_device"),
                               Get(obj, "te"), host_ts),
                  Get(obj, "te"), ppi_device(obj))

handle_hr(env, obj, host_ts, device, t_dev) ==
  IF f(Get(obj, "bpm")).t = "null" THEN Ret(env, FALSE)
  ELSE emit_sample(env, map_event_ts(env.clock, device, t_dev, JNull, host_ts),
                   "hr", device, 1, "bpm")

handle_ecg(env, obj, device) ==
  LET fs == f(Get(obj, "fs"))
      uV == Get(obj, "uV")
  IN  IF fs.t = "null" \/ ~isList(uV) \/ uV.n = 0 THEN Ret(env, FALSE)
      ELSE emit_chunk(env, "ecg", device, 1, fs.n, "uV", IF uV.w = 0 THEN uV.n ELSE 0)

handle_acc(env, obj, device) ==
  LET fs == f(Get(obj, "fs"))
      mG == Get(obj, "mG")
  IN  IF fs.t = "null" \/ ~isList(mG) \/ mG.n = 0 THEN Ret(env, FALSE)
      ELSE emit_chunk(env, "acc", device, 3, fs.n, "mG", rows_as_float(mG, 3))

handle_ppg(env, obj, device) ==
  LET fs == f(Get(obj, "fs"))
      ch == IntOr0(Get(obj, "ch"))
      mU == Get(obj, "mU")
  IN  IF fs.t = "null" \/ ch <= 0 \/ ~isList(mU) \/ mU.n = 0 THEN Ret(env, FALSE)
      ELSE emit_chunk(env, "ppg", device, ch, fs.n, "a.u.", rows_as_float(mU, ch))

handle_rr(env, obj, host_ts, device, t_dev, te) ==
  IF f(Get(obj, "ms")).t = "null" THEN Ret(env, FALSE)
  ELSE emit_sample(env, map_event_ts(env.clock, device, t_dev, te, host_ts),
                   "rr", device, 2, "ms,te")

\* the branch of handle for a lower-cased type
dispatch(env, obj, host_ts, typ, device, t_dev, te) ==
  CASE typ = "ppi" -> handle_ppi(env, obj, host_ts)
    [] typ = "hr"  -> handle_hr(env, obj, host_ts, device, t_dev)
    [] typ = "ecg" -> handle_ecg(env, obj, device)
    [] typ = "acc" -> handle_acc(env, obj, device)
    [] typ = "ppg" -> handle_ppg(env, obj, device)
    [] typ = "rr"  -> handle_rr(env, obj, host_ts, device, t_dev, te)
    [] OTHER -> Ret(env, FALSE)

\* handle(obj, host_ts, registry, clock)
handle(env, obj, host_ts) ==
  IF ~isStr(Get(obj, "type")) THEN Ret(env, FALSE)
  ELSE IF ~known_type(Get(obj, "type").s) THEN Ret(env, FALSE)
  ELSE dispatch(env, obj, host_ts, lower(strip(PyStr(Get(obj, "type")))),
                PyStr(PyOr(Get(obj, "device"), JStr("Unknown"))),
                f(Get(obj, "t_device")), f(Get(obj, "te")))

-----------------------------------------------------------------------------
(* ping_pong.py *)
PingPong == [endpoints |-> <<>>, last |-> <<>>, _pending |-> <<>>, _last_sent_ts |-> 0]

\* PingPong.update_endpoint(device, addr), device a hashable JSON value
update_endpoint(p, device, addr) ==
  IF ~Truthy(device) THEN p ELSE [p EXCEPT !.endpoints = Put(@, device, addr)]

period == 10        \* PingPong(sock, period_s=10.0)

\* the pings of one round, lines 35-42: sent is the set of devices whose
\* sendto succeeds
RECURSIVE pings(_, _, _)
pings(pending, devs, t0) ==
  IF devs = {} THEN pending
  ELSE LET dv == CHOOSE x \in devs : TRUE
       IN  pings(Put(pending, dv, t0), devs \ {dv}, t0)

\* PingPong.maybe_send_pings() when time.time() reads t
maybe_send_pings(p, t, sent) ==
  IF t - p._last_sent_ts < period THEN p
  ELSE [p EXCEPT !._last_sent_ts = t,
                 !._pending = pings(@, DOMAIN p.endpoints \cap sent, t)]

\* a matched pong recorded without clearing the pending ping
on_datagram_json_keep(p, obj, recv_t_pc, device_hint) ==
  LET dev == PyOr(PyOr(PyOr(device_hint, Get(obj, "device")), Get(obj, "deviceLabel")),
                  JStr("UNKNOWN"))
      t0 == Get(obj, "t0_pc")
      t1 == Get(obj, "t1_ph")
      t2 == Get(obj, "t2_ph")
      t3 == recv_t_pc
      pend == DefGet(p._pending, dev, 0)
      rtt == (t3 - t0.n) - (t2.n - t1.n)
      off2 == (t1.n - t0.n) + (t2.n - t3)
  IN  IF ~(isStr(Get(obj, "type")) /\ Get(obj, "type").s = "pong") THEN p
      ELSE IF ~isNum(t0) \/ ~isNum(t1) \/ ~isNum(t2) THEN p
      ELSE IF dev \notin DOMAIN p._pending \/ pend = 0
              \/ pend - t0.n > 2 \/ t0.n - pend > 2 THEN p
      ELSE [p EXCEPT !.last = Put(@, dev, [ts_pc |-> t3,
                                           rtt_ms |-> QMax(0, rtt * 1000),
                                           offset_ms |-> off2 * 500])]

on_datagram_json_any(p, obj, recv_t_pc, device_hint) ==
  LET dev == PyOr(PyOr(PyOr(device_hint, Get(obj, "device")), Get(obj, "deviceLabel")),
                  JStr("UNKNOWN"))
      t0 == Get(obj, "t0_pc")
      t1 == Get(obj, "t1_ph")
      t2 == Get(obj, "t2_ph")
      t3 == recv_t_pc
      pend == DefGet(p._pending, dev, 0)
      rtt == (t3 - t0.n) - (t2.n - t1.n)
      off2 == (t1.n - t0.n) + (t2.n - t3)
  IN  IF ~(isStr(Get(obj, "type")) /\ Get(obj, "type").s = "pong") THEN p
      ELSE IF ~isNum(t0) \/ ~isNum(t1) \/ ~isNum(t2) THEN p
      ELSE [p EXCEPT !.last = Put(@, dev, [ts_pc |-> t3,
                                           rtt_ms |-> QMax(0, rtt * 1000),
                                           offset_ms |-> off2 * 500]),
                     !._pending = [d \in DOMAIN @ \ {dev} |-> @[d]]]

\* PingPong.on_datagram_json(obj, recv_t_pc, device_hint); times in seconds,
\* rtt_ms and offset_ms in milliseconds
on_datagram_json(p, obj, recv_t_pc, device_hint) ==
  LET dev == PyOr(PyOr(PyOr(device_hint, Get(obj, "device")), Get(obj, "deviceLabel")),
                  JStr("UNKNOWN"))
      t0 == Get(obj, "t0_pc")
      t1 == Get(obj, "t1_ph")
      t2 == Get(obj, "t2_ph")
      t3 == recv_t_pc
      pend == DefGet(p._pending, dev, 0)
      rtt == (t3 - t0.n) - (t2.n - t1.n)
      off2 == (t1.n - t0.n) + (t2.n - t3)
  IN  IF ~(isStr(Get(obj, "type")) /\ Get(obj, "type").s = "pong") THEN p
      ELSE IF ~isNum(t0) \/ ~isNum(t1) \/ ~isNum(t2) THEN p
      ELSE IF dev \notin DOMAIN p._pending \/ pend = 0
              \/ pend - t0.n > 2 \/ t0.n - pend > 2 THEN p
      ELSE [p EXCEPT !.last = Put(@, dev, [ts_pc |-> t3,
                                           rtt_ms |-> QMax(0, rtt * 1000),
                                           offset_ms |-> off2 * 500]),
                     !._pending = [d \in DOMAIN @ \ {dev} |-> @[d]]]

-----------------------------------------------------------------------------
(* polar_bridge_batch.py *)
control_types == {"ping", "pong", "hub_status"}
NEVER == 1000000000           \* SUMMARY_EVERY under the hub

HubStatusText == "{\"type\":\"hub_status\",\"event\":\"started\"}"

\* data.decode("utf-8", errors="ignore").strip(), over the datagrams of the model
decode(data) ==
  CASE data = "  hello\n" -> "hello"
    [] data = " \n" -> ""
    [] OTHER -> data

NotJson == [kind |-> "error", obj |-> <<>>]
Dict(o) == [kind |-> "dict", obj |-> o]

\* json.loads(text), over the texts of the model
json_loads(text) ==
  CASE text = "{\"type\":\"marker\",\"label\":\"baseline_start\"}" ->
         Dict([type |-> JStr("marker"), label |-> JStr("baseline_start")])
    [] text = "{\"type\":\"marker\",\"label\":\" \",\"device\":\"H10\",\"seq\":7}" ->
         Dict([type |-> JStr("marker"), label |-> JStr(" "), device |-> JStr("H10"),
               seq |-> JInt(7)])
    [] text = "{\"type\":\"ping\",\"device\":\"H10\",\"seq\":1}" ->
         Dict([type |-> JStr("ping"), device |-> JStr("H10"), seq |-> JInt(1)])
    [] text = "{\"type\":\"pong\",\"device\":\"H10\",\"t0_pc\":0,\"t1_ph\":5,\"t2_ph\":6}" ->
         Dict([type |-> JStr("pong"), device |-> JStr("H10"), t0_pc |-> JInt(0),
               t1_ph |-> JInt(5), t2_ph |-> JInt(6)])
    [] text = HubStatusText ->
         Dict([type |-> JStr("hub_status"), event |-> JStr("started")])
    [] text = "{\"type\":\"hr\",\"device\":\"H10\",\"bpm\":60,\"t_device\":0,\"seq\":0}" ->
         Dict([type |-> JStr("hr"), device |-> JStr("H10"), bpm |-> JInt(60),
               t_device |-> JInt(0), seq |-> JInt(0)])
    [] text = "{\"type\":\"hr\",\"device\":\"H10\",\"bpm\":61,\"t_device\":9,\"seq\":2}" ->
         Dict([type |-> JStr("hr"), device |-> JStr("H10"), bpm |-> JInt(61),
               t_device |-> JInt(9), seq |-> JInt(2)])
    [] text = "{\"type\":\"ppg\",\"device\":\"Verity\",\"fs\":55.0,\"ch\":2,\"mU\":[[1,2],[3,4]],\"n\":2}" ->
         Dict([type |-> JStr("ppg"), device |-> JStr("Verity"), fs |-> JFlt(55),
               ch |-> JInt(2), mU |-> JList(2, 2), n |-> JInt(2)])
    [] text = "{\"type\":\"ppi\",\"device\":\"Verity\",\"ms\":800,\"te\":\"late\"}" ->
         Dict([type |-> JStr("ppi"), device |-> JStr("Verity"), ms |-> JInt(800),
               te |-> JStr("late")])
    [] text = "{\"type\":\"foo\",\"deviceLabel\":\"H10\"}" ->
         Dict([type |-> JStr("foo"), deviceLabel |-> JStr("H10")])
    [] text = "{\"type\":[\"hr\"],\"device\":\"H10\"}" ->
         Dict([type |-> JList(1, 0), device |-> JStr("H10")])
    [] text = "[1,2]" -> [kind |-> "other", obj |-> <<>>]
    [] text = "{\"hb\":\"hkh\",\"recent_samples\":1}" ->
         Dict([hb |-> JStr("hkh"), recent_samples |-> JInt(1)])
    [] text = "{\"hb\":\"hkh\",\"recent_samples\":2}" ->
         Dict([hb |-> JStr("hkh"), recent_samples |-> JInt(2)])
    [] text = "{\"hb\":\"lab\"}" -> Dict([hb |-> JStr("lab")])
    [] OTHER -> NotJson

Datagrams ==
  { "{\"type\":\"marker\",\"label\":\"baseline_start\"}",
    "{\"type\":\"marker\",\"label\":\" \",\"device\":\"H10\",\"seq\":7}",
    "{\"type\":\"ping\",\"device\":\"H10\",\"seq\":1}",
    "{\"type\":\"pong\",\"device\":\"H10\",\"t0_pc\":0,\"t1_ph\":5,\"t2_ph\":6}",
    HubStatusText,
    "{\"type\":\"hr\",\"device\":\"H10\",\"bpm\":60,\"t_device\":0,\"seq\":0}",
    "{\"type\":\"hr\",\"device\":\"H10\",\"bpm\":61,\"t_device\":9,\"seq\":2}",
    "{\"type\":\"ppg\",\"device\":\"Verity\",\"fs\":55.0,\"ch\":2,\"mU\":[[1,2],[3,4]],\"n\":2}",
    "{\"type\":\"ppi\",\"device\":\"Verity\",\"ms\":800,\"te\":\"late\"}",
    "{\"type\":\"foo\",\"deviceLabel\":\"H10\"}",
    "{\"type\":[\"hr\"],\"device\":\"H10\"}",
    "[1,2]", "  hello\n", " \n" }

\* the worker before main() runs
Hub0 ==
  [pc |-> "start", exit |-> "", SUMMARY_EVERY |-> 3, STOP_FLAG |-> FALSE, t0 |-> 0,
   cnt_text |-> 0, cnt_mark |-> 0, cnt_handled |-> 0, cnt_unknown |-> 0, cnt_errors |-> 0,
   outlet_data |-> <<>>, outlet_mark |-> <<>>, logf |-> <<>>,
   sock_open |-> FALSE, logf_open |-> FALSE, metricsf_open |-> FALSE,
   pp |-> PingPong,
   under_hub |-> FALSE, hb_interval |-> 2,      \* args, with their defaults
   ticks |-> 0,                                 \* summary ticks entered (line 341)
   heartbeats |-> 0,                            \* heartbeat lines printed (line 348)
   journal |-> 0]                               \* lines written to metricsf (line 368)

\* lines 164-262: argument parsing, files, socket, base outlets
\* (times are whole seconds, so max(0.5, hb_interval) is max(1, hb_interval))
startup(h, under_hub, hb_interval, bind_ok, t) ==
  LET h1 == [h EXCEPT !.SUMMARY_EVERY = IF under_hub THEN NEVER ELSE QMax(1, hb_interval),
                      !.under_hub = under_hub, !.hb_interval = hb_interval,
                      !.logf_open = TRUE, !.metricsf_open = TRUE, !.sock_open = TRUE]
  IN  IF ~bind_ok THEN [h1 EXCEPT !.pc = "exited", !.exit = "bind failed"]
      ELSE [h1 EXCEPT !.pc = "recv", !.t0 = t,
                      !.outlet_data = <<HubStatusText>>, !.cnt_text = 1,
                      !.outlet_mark = <<"[init]">>, !.cnt_mark = 1]

\* the finally block, lines 388-404
finally(h, why) ==
  [h EXCEPT !.pc = "exited", !.exit = why,
            !.sock_open = FALSE, !.logf_open = FALSE, !.metricsf_open = FALSE]

\* line 289: a JSON object of type "marker"
is_marker(j) ==
  j.kind = "dict" /\ isStr(Get(j.obj, "type")) /\ Get(j.obj, "type").s = "marker"

\* lines 290-291: the label pushed on PB_MARKERS
marker_label(raw_label) ==
  IF isStr(raw_label) /\ raw_label.s \notin {"", " "} THEN raw_label.s ELSE "unknown"

\* lines 285-297: the marker route
route_marker(h, j) ==
  IF is_marker(j)
  THEN [h EXCEPT !.outlet_mark = Append(@, marker_label(IF "label" \in DOMAIN j.obj
                                                       THEN j.obj["label"] ELSE JStr(""))),
                 !.cnt_mark = @ + 1]
  ELSE h

route_text_nonempty(h, text) ==
  IF text = "" THEN h
  ELSE [h EXCEPT !.outlet_data = Append(@, text), !.cnt_text = @ + 1]

\* lines 299-301: the raw text always goes to PB_UDP
route_text(h, text) ==
  [h EXCEPT !.outlet_data = Append(@, text), !.cnt_text = @ + 1]

\* a value that cannot be a dict key or a set member
unhashable(x) == x.t = "list"

\* lines 328-337: the counters after the translator returned r (or raised)
count(h, r) ==
  IF r.raised THEN [h EXCEPT !.cnt_errors = @ + 1, !.cnt_unknown = @ + 1]
  ELSE IF r.ret THEN [h EXCEPT !.cnt_handled = @ + 1]
  ELSE [h EXCEPT !.cnt_unknown = @ + 1]

\* lines 339-382: the summary tick, whose heartbeat calls metrics.total_loss(),
\* a method StreamMetrics does not have; then the ESC and stop-flag tests
end_of_iteration(h, t, esc) ==
  IF t - h.t0 >= h.SUMMARY_EVERY
  THEN finally([h EXCEPT !.ticks = @ + 1], "AttributeError")
  ELSE IF esc THEN finally(h, "esc")
  ELSE IF h.STOP_FLAG THEN finally(h, "stop flag")
  ELSE h

\* lines 322-337, then the end of the iteration: r is what the translator returned
translated(h, m, r, t, esc) ==
  [hub |-> end_of_iteration(count(h, r), t, esc), metrics |-> m, env |-> r.env]

\* lines 311-337 for an object whose device was recorded
typed(h, m, e, obj, typ, dev, routed_marker, t, esc) ==
  IF unhashable(typ)
  THEN [hub |-> finally(h, "TypeError"), metrics |-> m, env |-> e]
  ELSE IF isStr(typ) /\ typ.s \in control_types
  THEN [hub |-> end_of_iteration(
                  IF typ.s = "pong" THEN [h EXCEPT !.pp = on_datagram_json(@, obj, t, dev)]
                  ELSE h, t, esc),
        metrics |-> m, env |-> e]
  ELSE IF routed_marker
  THEN [hub |-> end_of_iteration(h, t, esc), metrics |-> observe(m, obj, t), env |-> e]
  ELSE translated(h, observe(m, obj, t), handle(e, obj, QInt(t)), t, esc)

\* lines 303-337 once the text is on PB_UDP
routed(h, m, e, j, dev, addr, t, esc) ==
  IF j.kind # "dict"
  THEN [hub |-> end_of_iteration(h, t, esc), metrics |-> m, env |-> e]
  ELSE IF Truthy(dev) /\ unhashable(dev)
  THEN [hub |-> finally(h, "TypeError"), metrics |-> m, env |-> e]
  ELSE typed([h EXCEPT !.pp = update_endpoint(@, dev, addr)], m, e, j.obj,
             Get(j.obj, "type"), dev, is_marker(j), t, esc)

\* lines 279-337 for the decoded text and its parse j
parsed(h, m, e, text, j, addr, t, esc) ==
  routed(route_text(route_marker([h EXCEPT !.logf = Append(@, text)], j), text), m, e, j,
         PyOr(PyOr(Get(j.obj, "device"), Get(j.obj, "deviceLabel")), Get(j.obj, "deviceId")),
         addr, t, esc)

\* lines 266-382: one iteration of the receive loop.  The result is the
\* worker, the metrics and the translator state after it.
iteration(h, m, e, data, addr, t, esc) ==
  parsed(h, m, e, decode(data), json_loads(decode(data)), addr, t, esc)

-----------------------------------------------------------------------------
(* hkh_bridge_batch.py *)
CANDIDATE_PORTS == <<"COM5", "COM3">>
DEVICE_ID == 204                          \* 0xCC
CMD_START == <<255, 204, 3, 163, 160>>    \* FF CC 03 A3 A0
CMD_STOP  == <<255, 204, 3, 164, 161>>    \* FF CC 03 A4 A1
RUNNING == -1                             \* exit code of a process that has not ended

\* the script before its first statement runs; ser is "none" (None), "open"
\* or "closed"; wire is the sequence of ser.write calls, in_buf the bytes the
\* driver holds, t the reading of pylsl.local_clock() in seconds.  History:
\* delivered is every byte the link has delivered, timeouts the number of
\* ser.read(5) calls that returned fewer than 5 bytes.
Hkh0 ==
  [pc |-> "probe", exit_code |-> RUNNING, COM_PORT |-> "", STOP_FLAG |-> FALSE,
   UNDER_HUB |-> FALSE, HB_EVERY |-> 2, ready |-> FALSE,
   ser |-> "none", wire |-> <<>>, in_buf |-> <<>>,
   pushed |-> <<>>, csv |-> <<>>, csv_open |-> FALSE,
   t |-> 0, last_hb_time |-> 0, last_value |-> 0, heartbeats |-> 0, steps |-> 0,
   delivered |-> <<>>, timeouts |-> 0]

\* lines 50-57: the first candidate port that opens, "" when none does
probe(avail) ==
  IF CANDIDATE_PORTS[1] \in avail THEN CANDIDATE_PORTS[1]
  ELSE IF CANDIDATE_PORTS[2] \in avail THEN CANDIDATE_PORTS[2]
  ELSE ""

\* lines 45-94: probing, SystemExit(3) when no port opened, argument parsing
\* and signal registration (whole seconds: max(0.5, x) is max(1, x))
prologue(h, avail, under_hub, hb_interval) ==
  IF probe(avail) = "" THEN [h EXCEPT !.pc = "exited", !.exit_code = 3]
  ELSE [h EXCEPT !.pc = "main", !.COM_PORT = probe(avail),
                 !.UNDER_HUB = under_hub, !.HB_EVERY = QMax(1, hb_interval)]

hkh_finally_nostop(h, stop_ok) ==
  IF h.ser = "open"
  THEN [h EXCEPT !.ser = "closed", !.csv_open = FALSE, !.pc = "exited", !.exit_code = 0]
  ELSE [h EXCEPT !.csv_open = FALSE, !.pc = "exited", !.exit_code = 0]

\* lines 171-187: the except clauses print, the finally block writes the stop
\* command to a port that is open and closes it; the script then ends
hkh_finally(h, stop_ok) ==
  IF h.ser = "open"
  THEN [h EXCEPT !.wire = Append(@, [cmd |-> CMD_STOP, ok |-> stop_ok]),
                 !.ser = "closed", !.csv_open = FALSE, !.pc = "exited", !.exit_code = 0]
  ELSE [h EXCEPT !.csv_open = FALSE, !.pc = "exited", !.exit_code = 0]

\* lines 98-126: READY line, open the port, open the CSV, send the start command
open_port(h, open_ok, csv_ok, start_ok, stop_ok) ==
  IF ~open_ok THEN hkh_finally([h EXCEPT !.ready = TRUE], stop_ok)
  ELSE IF ~csv_ok THEN hkh_finally([h EXCEPT !.ready = TRUE, !.ser = "open"], stop_ok)
  ELSE IF ~start_ok
  THEN hkh_finally([h EXCEPT !.ready = TRUE, !.ser = "open", !.csv = <<"header">>,
                             !.wire = Append(@, [cmd |-> CMD_START, ok |-> FALSE])], stop_ok)
  ELSE [h EXCEPT !.ready = TRUE, !.ser = "open", !.csv = <<"header">>, !.csv_open = TRUE,
                 !.wire = Append(@, [cmd |-> CMD_START, ok |-> TRUE]),
                 !.last_hb_time = h.t, !.pc = "loop"]

\* struct.unpack(">h", bytes([hxh, hxl]))[0]
unpack_h(hxh, hxl) ==
  IF hxh * 256 + hxl >= 32768 THEN hxh * 256 + hxl - 65536 ELSE hxh * 256 + hxl

\* lines 153-166: the heartbeat when it is due, at clock reading t
heartbeat(h, t) ==
  IF t - h.last_hb_time >= h.HB_EVERY
  THEN [h EXCEPT !.t = t, !.heartbeats = @ + 1, !.last_hb_time = t, !.pc = "loop"]
  ELSE [h EXCEPT !.t = t, !.pc = "loop"]

\* lines 135-151 once ser.read(5) returned packet, then the heartbeat
after_read(h, packet, rest, t) ==
  IF Len(packet) = 5
  THEN heartbeat([h EXCEPT !.in_buf = rest,
                           !.pushed = Append(@, unpack_h(packet[4], packet[5])),
                           !.csv = Append(@, "row"),
                           !.last_value = unpack_h(packet[4], packet[5])], t)
  ELSE heartbeat([h EXCEPT !.in_buf = rest], t)

\* lines 133-135: the header test on the bytes waiting in buf.  The result
\* is the bytes left and whether ser.read(5) is reached.
header(buf) ==
  IF buf = <<>> THEN [rest |-> buf, found |-> FALSE]
  ELSE IF Head(buf) # 255 THEN [rest |-> Tail(buf), found |-> FALSE]
  ELSE IF Tail(buf) = <<>> THEN [rest |-> <<>>, found |-> FALSE]
  ELSE IF buf[2] # DEVICE_ID THEN [rest |-> Tail(Tail(buf)), found |-> FALSE]
  ELSE [rest |-> Tail(Tail(buf)), found |-> TRUE]

\* lines 129-166: the loop test and one iteration up to ser.read(5); err is a
\* SerialException raised by the port
loop(h, hd, err, stop_ok, t) ==
  IF h.STOP_FLAG \/ err THEN hkh_finally(h, stop_ok)
  ELSE IF ~hd.found THEN heartbeat([h EXCEPT !.in_buf = hd.rest], t)
  ELSE IF Len(hd.rest) >= 5
  THEN after_read(h, SubSeq(hd.rest, 1, 5), SubSeq(hd.rest, 6, Len(hd.rest)), t)
  ELSE [h EXCEPT !.in_buf = hd.rest, !.pc = "read5", !.t = t]

\* ser.read(5) returning: with 5 bytes, after its 1 s timeout with fewer, or
\* raising
read5(h, outcome, stop_ok, t) ==
  IF outcome = "error" THEN hkh_finally(h, stop_ok)
  ELSE IF Len(h.in_buf) >= 5
  THEN after_read(h, SubSeq(h.in_buf, 1, 5), SubSeq(h.in_buf, 6, Len(h.in_buf)), t)
  ELSE after_read([h EXCEPT !.timeouts = @ + 1], h.in_buf, <<>>, t + 1)

-----------------------------------------------------------------------------
(* lsl_mirror_batch.py *)
DISCOVER_EVERY == 5
FLUSH_ROWS == 10000
FLUSH_SEC == 3

\* time.time(): seconds since the epoch, t seconds after the model starts
time_time(t) == 100 + t

\* the mirror before main() runs.  inlets is the insertion order of
\* self.inlets, index is self.index["streams"], disk_index the content of
\* session_index.json per directory, files the rows of each stream file that
\* exists, exc an exception on its way out of the loop.
Mirror0 ==
  [pc |-> "start", exit |-> "", STOP_FLAG |-> FALSE, exc |-> FALSE, ready |-> FALSE,
   under_hub |-> FALSE, hb_every |-> 2, init_dir |-> "", session_dir |-> "",
   index |-> <<>>, disk_index |-> <<>>, inlets |-> <<>>, meta |-> <<>>, writers |-> <<>>,
   last_seen |-> <<>>, files |-> <<>>,
   stop_markers |-> <<>>, stop_dir |-> "", stop_open |-> FALSE, session_end |-> "",
   last_discover |-> 0, _last_summary |-> 0, heartbeats |-> 0, t |-> 0, steps |-> 0,
   io_errors |-> 0,        \* history: writes of a stream file that raised
   pulled |-> <<>>,        \* history: per stream, the rows built from its chunks
   rounds |-> <<>>,        \* history: what resolve_streams returned, per round
   journal |-> <<>>]       \* history: the steps of the finally block, in order

\* now_session_id()
now_session_id(t) == "S" \o ToString(time_time(t))

\* ParquetWriter.__init__
ParquetWriter(path, t) ==
  [path |-> path, opened |-> FALSE, closed |-> FALSE, buf |-> <<>>,
   _last_flush |-> t, total_rows |-> 0]

\* main() and Mirror.__init__, then run() up to the loop
mirror_main(m, session, under_hub, hb_interval, t) ==
  [m EXCEPT !.under_hub = under_hub, !.hb_every = QMax(1, hb_interval),
            !.init_dir = now_session_id(t),
            !.disk_index = Put(@, now_session_id(t), <<>>),
            !.stop_dir = now_session_id(t), !.stop_open = TRUE,
            !.session_dir = IF session = "" THEN now_session_id(t) ELSE session,
            !.ready = TRUE, !.pc = "loop", !.t = t]

\* lines 187-204 for one new outlet
add_stream(m, info, fname, t) ==
  [m EXCEPT !.inlets = Append(@, info.sid),
            !.meta = Put(@, info.sid, info),
            !.writers = Put(@, info.sid, ParquetWriter(<<m.session_dir, fname>>, t)),
            !.last_seen = Put(@, info.sid, 0),
            !.pulled = Put(@, info.sid, <<>>),
            !.index = Append(@, [file |-> fname, sid |-> info.sid, name |-> info.name]),
            !.disk_index = Put(@, m.session_dir,
                               Append(m.index, [file |-> fname, sid |-> info.sid,
                                                name |-> info.name]))]

\* a discovery round that does not look for the source id in self.inlets
RECURSIVE discover_once_dup(_, _, _)
discover_once_dup(m, infos, t) ==
  IF infos = <<>> THEN m
  ELSE IF Head(infos).sid = ""
  THEN discover_once_dup(m, Tail(infos), t)
  ELSE discover_once_dup(add_stream(m, Head(infos),
                                    Head(infos).name \o "__" \o Head(infos).sid8
                                      \o ".parquet", t),
                         Tail(infos), t)

\* Mirror.discover_once over the infos resolve_streams returned
RECURSIVE discover_once(_, _, _)
discover_once(m, infos, t) ==
  IF infos = <<>> THEN m
  ELSE IF Head(infos).sid = "" \/ Head(infos).sid \in DOMAIN m.writers
  THEN discover_once(m, Tail(infos), t)
  ELSE discover_once(add_stream(m, Head(infos),
                                Head(infos).name \o "__" \o Head(infos).sid8 \o ".parquet", t),
                     Tail(infos), t)

\* json.loads of a string payload, over the payloads of the model
payload_loads(text) ==
  CASE text = "{\"cmd\":\"STOP\"}" -> Dict([cmd |-> JStr("STOP")])
    [] text = "{\"label\":\"nonstop\"}" -> Dict([label |-> JStr("nonstop")])
    [] OTHER -> NotJson

\* "stop" in s.lower(), over the strings of the model
has_stop(s) ==
  s \in {"stop", "STOP", "Stop", "nonstop", "{\"cmd\":\"STOP\"}", "{\"label\":\"nonstop\"}"}

\* lines 255-263: the payload is recorded as a stop marker
stop_hit(text) ==
  IF payload_loads(text).kind = "dict"
  THEN \/ has_stop(IF "label" \in DOMAIN payload_loads(text).obj
                   THEN PyStr(payload_loads(text).obj["label"]) ELSE "")
       \/ lower(IF "cmd" \in DOMAIN payload_loads(text).obj
                THEN PyStr(payload_loads(text).obj["cmd"]) ELSE "") = "stop"
  ELSE has_stop(text)

\* Mirror._write_stop_event for every sample of the chunk that is a stop
\* marker; ts0 is ts_corr[0]
RECURSIVE stop_events(_, _, _, _)
stop_events(recs, samples, ts0, name) ==
  IF samples = <<>> THEN recs
  ELSE stop_events(IF stop_hit(Head(samples).v)
                   THEN Append(recs, [time_lsl |-> ts0, label |-> Head(samples).v,
                                      stream |-> name])
                   ELSE recs,
                   Tail(samples), ts0, name)

\* ParquetWriter._flush_locked with rows buffered: _ensure creates the file,
\* write_table appends the rows or raises
_flush_locked(m, sid, w, t, ok) ==
  IF ~ok
  THEN [m EXCEPT !.exc = TRUE, !.io_errors = @ + 1,
                 !.writers[sid] = [w EXCEPT !.opened = TRUE],
                 !.files = IF w.opened THEN @ ELSE Put(@, w.path, <<>>)]
  ELSE [m EXCEPT !.writers[sid] = [w EXCEPT !.opened = TRUE, !.buf = <<>>,
                                            !.total_rows = @ + Len(w.buf),
                                            !._last_flush = t],
                 !.files = Put(@, w.path, IF w.opened THEN @[w.path] \o w.buf ELSE w.buf)]

\* ParquetWriter.write_batch once the batch is in the buffer
flush_if_due(m, sid, w, t, ok) ==
  IF Len(w.buf) >= FLUSH_ROWS \/ t - w._last_flush >= FLUSH_SEC
  THEN _flush_locked(m, sid, w, t, ok)
  ELSE [m EXCEPT !.writers[sid] = w]

\* lines 225-267 for one inlet whose pull_chunk returned samples
pull_one(m, sid, samples, corr, t, ok) ==
  IF samples = <<>> THEN m
  ELSE flush_if_due(
         [m EXCEPT !.last_seen[sid] = t,
                   !.pulled[sid] = @ \o [i \in 1..Len(samples) |->
                                           [ts |-> samples[i].ts + corr, v |-> samples[i].v]],
                   !.stop_markers =
                      IF m.meta[sid].numeric THEN @
                      ELSE stop_events(@, samples, samples[1].ts + corr, m.meta[sid].name)],
         sid,
         [m.writers[sid] EXCEPT
            !.buf = @ \o [i \in 1..Len(samples) |->
                            [ts |-> samples[i].ts + corr, v |-> samples[i].v]]],
         t, ok)

\* Mirror.pull_once over the inlets sids: feed gives the samples waiting for
\* string and for numeric inlets, fail the stream whose file cannot be written
RECURSIVE pull_once(_, _, _, _, _, _)
pull_once(m, sids, feed, corr, t, fail) ==
  IF sids = <<>> \/ m.exc THEN m
  ELSE pull_once(pull_one(m, Head(sids),
                          IF m.meta[Head(sids)].numeric THEN feed.numeric ELSE feed.string,
                          corr, t, Head(sids) # fail),
                 Tail(sids), feed, corr, t, fail)

\* a writer closed without its last flush
close_noflush(m, sid, w, t, ok) ==
  [m EXCEPT !.writers[sid].closed = TRUE,
            !.journal = Append(@, [step |-> "close", sid |-> sid, rows |-> 0])]

\* ParquetWriter.close inside try/except, lines 340-344
close(m, sid, w, t, ok) ==
  IF w.buf = <<>>
  THEN [m EXCEPT !.writers[sid].closed = TRUE,
                 !.journal = Append(@, [step |-> "close", sid |-> sid, rows |-> 0])]
  ELSE [_flush_locked(m, sid, w, t, ok) EXCEPT
          !.writers[sid].closed = ok, !.exc = FALSE,
          !.journal = Append(@, [step |-> "close", sid |-> sid, rows |-> Len(w.buf)])]

RECURSIVE close_all(_, _, _, _)
close_all(m, sids, t, fail) ==
  IF sids = <<>> THEN m
  ELSE close_all(close(m, Head(sids), m.writers[Head(sids)], t, Head(sids) # fail),
                 Tail(sids), t, fail)

\* the finally block of run, lines 338-357
mirror_finally(m, why, t, fail) ==
  [close_all(m, m.inlets, time_time(t), fail) EXCEPT
     !.exc = FALSE, !.stop_open = FALSE, !.session_end = m.session_dir,
     !.journal = Append(@, [step |-> "session_end", sid |-> "", rows |-> 0]),
     !.pc = "exited", !.exit = why, !.t = t]

\* lines 309-334: heartbeat when due, then the ESC and stop-flag tests
mirror_tail(m, t, esc, fail) ==
  IF m.exc THEN mirror_finally(m, "error", t, fail)
  ELSE IF esc THEN mirror_finally(m, "esc", t, fail)
  ELSE IF m.STOP_FLAG THEN mirror_finally(m, "stop flag", t, fail)
  ELSE [m EXCEPT !.t = t]

\* lines 309-325
mirror_heartbeat(m, t) ==
  IF ~m.exc /\ time_time(t) - m._last_summary >= m.hb_every
  THEN [m EXCEPT !.heartbeats = @ + 1, !._last_summary = time_time(t)]
  ELSE m

\* lines 301-303
mirror_discover(m, infos, t) ==
  IF time_time(t) - m.last_discover >= DISCOVER_EVERY
  THEN [discover_once(m, infos, time_time(t)) EXCEPT !.last_discover = time_time(t),
                                                     !.rounds = Append(@, infos)]
  ELSE m

\* lines 300-334: one iteration of the loop of run
mirror_iteration(m, infos, feed, corr, t, esc, fail) ==
  mirror_tail(
    mirror_heartbeat(
      pull_once(mirror_discover(m, infos, t), mirror_discover(m, infos, t).inlets,
                feed, corr, time_time(t), fail), t),
    t, esc, fail)

-----------------------------------------------------------------------------
(* bridge_hub_launcher.py *)
\* the children in the order of every "for c in (polar, hkh, mirror)"
Children == <<"Polar", "HKH", "Mirror">>
Names == {"Polar", "HKH", "Mirror"}

SOFT_TIMEOUT == 5     \* deadline = time.time() + 5.0

\* the signals a worker has a handler for once it has registered them, on a
\* platform with or without SIGBREAK
Registered(c) ==
  IF c = "Polar" THEN {"SIGINT", "SIGTERM"} ELSE {"SIGINT", "SIGTERM", "SIGBREAK"}

\* Child.soft_term: the signal the child receives
SoftSignal(os) == IF os = "nt" THEN "SIGBREAK" ELSE "SIGTERM"

\* a signal reaches the Polar worker: _sig_handler when it is registered for
\* the signal, else the default action ends the process where it stands
polar_signal(h, sig) ==
  IF h.pc = "recv" /\ sig \in Registered("Polar") THEN [h EXCEPT !.STOP_FLAG = TRUE]
  ELSE [h EXCEPT !.pc = "exited", !.exit = sig]

\* a signal reaches the HKH worker (handlers are registered at lines 84-87)
hkh_signal(h, sig) ==
  IF h.pc \in {"main", "loop", "read5"} /\ sig \in Registered("HKH")
  THEN [h EXCEPT !.STOP_FLAG = TRUE]
  ELSE [h EXCEPT !.pc = "exited", !.exit_code = -15]

\* a signal reaches the mirror (handlers are registered at lines 289-292)
mirror_signal(m, sig) ==
  IF m.pc = "loop" /\ sig \in Registered("Mirror") THEN [m EXCEPT !.STOP_FLAG = TRUE]
  ELSE [m EXCEPT !.pc = "exited", !.exit = sig]

\* main() before it has started the children.  ready is Child.ready, q is
\* Child.q, emitted the lines _pump has read from each child; printed holds
\* the child lines the main loop has printed, all_ready counts the all-ready
\* messages; softs and kills are the children soft_term and kill have
\* signalled, reports the final report, in order.
Sup0 ==
  [pc |-> "init", os |-> "posix", hub_stop |-> FALSE, why |-> "",
   ready |-> [c \in Names |-> FALSE], q |-> [c \in Names |-> <<>>],
   emitted |-> [c \in Names |-> <<>>], statuses |-> <<>>, printed |-> {},
   all_ready |-> 0, i |-> 1, waited |-> 0,
   softs |-> <<>>, kills |-> <<>>, reports |-> <<>>, final |-> FALSE]

\* "[READY]" in line, over the lines of the model
has_ready(line) == line \in {"[READY] polar", "[READY] hkh", "[READY] mirror"}

\* line.lstrip(), over the lines of the model
lstrip(line) ==
  IF line = "  {\"hb\":\"hkh\",\"recent_samples\":1}"
  THEN "{\"hb\":\"hkh\",\"recent_samples\":1}" ELSE line

\* ls.startswith("{"), over the lines of the model
starts_brace(ls) ==
  ls \in {"{\"hb\":\"hkh\",\"recent_samples\":1}", "{\"hb\":\"hkh\",\"recent_samples\":2}",
          "{\"hb\":\"lab\"}", "{\"hb\":"}

\* is_noisy_liblsl_line, over the lines of the model
is_noisy_liblsl_line(line) == line = "INFO| common.cpp:65 git:v1.16"

\* lines 271-278: the line is a heartbeat
is_heartbeat(ls) ==
  /\ starts_brace(ls)
  /\ json_loads(ls).kind = "dict"
  /\ isStr(Get(json_loads(ls).obj, "hb"))
  /\ Get(json_loads(ls).obj, "hb").s \in {"polar", "hkh", "mirror"}

\* lines 208-256: the children are started
sup_main(s, os) == [s EXCEPT !.pc = "loop", !.os = os]

\* Child._pump on one line of the child's output
_pump(s, c, line) ==
  [s EXCEPT !.ready[c] = IF has_ready(line) THEN TRUE ELSE @,
            !.q[c] = Append(@, line),
            !.emitted[c] = Append(@, line)]

\* the main loop prints every drained line, heartbeats too
one_line_loud(s, c, line) ==
  IF is_noisy_liblsl_line(line) THEN s
  ELSE [s EXCEPT !.printed = @ \cup {[child |-> c, line |-> line]}]

\* lines 268-284 for one drained line
one_line(s, c, line) ==
  IF is_heartbeat(lstrip(line)) THEN [s EXCEPT !.statuses = Put(@, c, lstrip(line))]
  ELSE IF is_noisy_liblsl_line(line) THEN s
  ELSE [s EXCEPT !.printed = @ \cup {[child |-> c, line |-> line]}]

\* lines 267-284 for the lines drain_lines returned for the child c
RECURSIVE forward(_, _, _)
forward(s, c, lines) ==
  IF lines = <<>> THEN s
  ELSE forward(one_line(s, c, Head(lines)), c, Tail(lines))

\* lines 266-284: the queue of every child is drained and its lines handled
RECURSIVE drain(_, _)
drain(s, cs) ==
  IF cs = <<>> THEN s
  ELSE drain(forward([s EXCEPT !.q[Head(cs)] = <<>>], Head(cs), s.q[Head(cs)]), Tail(cs))

\* lines 287-298: the one-shot message when every child is ready
ready_check(s) ==
  IF \A c \in Names : s.ready[c]
  THEN [s EXCEPT !.all_ready = @ + 1, !.ready = [c \in Names |-> FALSE]]
  ELSE s

\* the main loop never looks at the children's exit
sup_iteration_blind(s, exited) ==
  IF s.hub_stop THEN [s EXCEPT !.pc = "soft", !.i = 1, !.why = "stop"]
  ELSE ready_check(drain(s, Children))

\* lines 261-331: one iteration of the main loop; exited says that some
\* child's poll() is not None.  The reader threads share only Child.q and
\* Child.ready with the loop, so a line put while the loop drains is taken
\* either in this iteration or in the next one, as if it had been put just
\* before or just after the iteration.
sup_iteration(s, exited) ==
  IF s.hub_stop THEN [s EXCEPT !.pc = "soft", !.i = 1, !.why = "stop"]
  ELSE IF exited
  THEN [ready_check(drain(s, Children)) EXCEPT !.pc = "soft", !.i = 1, !.why = "early exit"]
  ELSE ready_check(drain(s, Children))

\* lines 336-337 for the child c: soft_term signals a child that is alive
soft_term(s, c, alive) ==
  [s EXCEPT !.softs = IF alive THEN Append(@, c) ELSE @,
            !.i = IF s.i = Len(Children) THEN 1 ELSE @ + 1,
            !.pc = IF s.i = Len(Children) THEN "wait" ELSE @,
            !.waited = 0]

\* the wait given up at once
wait_none(s, alive) == [s EXCEPT !.pc = "kill", !.i = 1]

\* the wait without a deadline
wait_forever(s, alive) ==
  IF ~alive THEN [s EXCEPT !.pc = "kill", !.i = 1] ELSE s

\* lines 340-345: one test of the wait loop, a second after the previous one
wait(s, alive) ==
  IF s.waited >= SOFT_TIMEOUT \/ ~alive THEN [s EXCEPT !.pc = "kill", !.i = 1]
  ELSE [s EXCEPT !.waited = @ + 1]

\* lines 348-351 for the child c
kill(s, c, alive) ==
  [s EXCEPT !.kills = IF alive THEN Append(@, c) ELSE @,
            !.i = IF s.i = Len(Children) THEN 1 ELSE @ + 1,
            !.pc = IF s.i = Len(Children) THEN "report" ELSE @]

\* lines 354-382: the report of each child and the final message
report(s, codes) == [s EXCEPT !.reports = codes, !.final = TRUE, !.pc = "done"]

-----------------------------------------------------------------------------
(* Packets handed to observe *)
Pkt(typ, dev, seq) == [type |-> JStr(typ), device |-> JStr(dev), seq |-> JInt(seq)]

ObservePkts ==
  { Pkt("ppg", "Verity", s) : s \in 0..MaxSeq }
  \cup { [type |-> JStr("ppg"), device |-> JStr("Verity"), seq |-> JInt(0),
          fs |-> JFlt(55), n |-> JInt(2)],
         [type |-> JStr("hr"), deviceLabel |-> JStr("H10")],
         [type |-> JStr("hr")],
         [type |-> JInt(7), device |-> JStr("H10"), seq |-> JInt(1)],
         Pkt("ping", "H10", 1), Pkt("pong", "H10", 2),
         [type |-> JStr("hub_status"), event |-> JStr("started")] }

Dts == {1, win_short + 1}

\* history: the integer seqs that reached the seq block, per key
Record(h, j) ==
  LET typ == Get(j, "type")
      k   == _key(j)
      seq == Get(j, "seq")
  IN  IF (isStr(typ) /\ typ.s \in {"ping", "pong", "hub_status"}) \/ k = NoKey \/ ~isInt(seq)
      THEN h
      ELSE Put(h, k, Append(DefGet(h, k, <<>>), seq.n))

Init ==
  /\ metrics = StreamMetrics
  /\ lsl = Env0
  /\ now = 0
  /\ steps = 0
  /\ seen = <<>>
  /\ last = [op |-> "init"]
  /\ log = <<>>
  /\ hub = Hub0
  /\ rx = <<>>
  /\ hkh = Hkh0
  /\ mirror = Mirror0
  /\ sup = Sup0

\* one call metrics.observe(j, time.monotonic())
Observe(j, dt) ==
  /\ steps < MaxObs
  /\ now' = now + dt
  /\ metrics' = observe(metrics, j, now')
  /\ seen' = Record(seen, j)
  /\ last' = [op |-> "observe", j |-> j]
  /\ steps' = steps + 1
  /\ UNCHANGED <<lsl, log, hub, rx>>
  /\ UNCHANGED <<hkh, mirror, sup>>

NextMetrics == \E j \in ObservePkts, dt \in Dts : Observe(j, dt)

SpecMetrics == Init /\ [][NextMetrics]_vars

-----------------------------------------------------------------------------
(* Direct calls of LSLRegistry.ensure *)
EnsureTypes == {"hr", "HR", "ppg"}
EnsureDevices == {"H10", "Verity"}
EnsureChannels == {1, 2}

Ensure(typ, device, channels, srate, units) ==
  /\ steps < MaxEnsure
  /\ \E r \in {ensure(lsl.registry, typ, device, channels, srate, units)} :
         /\ lsl' = [lsl EXCEPT !.registry = r.reg]
         /\ log' = Append(log, [typ |-> typ, device |-> device, channels |-> channels,
                                srate |-> srate, units |-> units, outlet |-> r.outlet,
                                created |-> r.created, raised |-> r.raised])
  /\ last' = [op |-> "ensure"]
  /\ steps' = steps + 1
  /\ UNCHANGED <<metrics, now, seen, hub, rx>>
  /\ UNCHANGED <<hkh, mirror, sup>>

NextRegistry ==
  \E typ \in EnsureTypes, device \in EnsureDevices, channels \in EnsureChannels,
     units \in {"bpm", "a.u."} : Ensure(typ, device, channels, 0, units)

SpecRegistry == Init /\ [][NextRegistry]_vars

-----------------------------------------------------------------------------
(* Direct calls of ClockSync.map_event_ts and ClockSync.reset *)
ClkDevices == {"H10", "Verity"}
ClkTDevice == {JNull, JFlt(0), JFlt(2)}
ClkTe == {JNull, JFlt(1)}
ClkDts == {1, 4}

\* the reading of local_clock() at second t
local_clock(t) == QInt(t)

\* line 25: the update is clamped
clamped(e, sample_offset) ==
  e.inited /\ QLess(QInt(clamp_s), QAbs(QSub(sample_offset, e.offset)))

\* history: per device, the latest call that passed t_device and returned
Accepted(h, device, t_device, te, ts_arrival, m, before) ==
  IF t_device.t = "null" \/ m.raised THEN h
  ELSE Put(h, device,
           [cur |-> [t_device |-> t_device, te |-> te, ts |-> m.ts,
                     clamped |-> clamped(before, QSub(ts_arrival, QInt(t_device.n)))],
            prev |-> IF device \in DOMAIN h THEN <<h[device].cur>> ELSE <<>>])

MapEventTs(device, t_device, te, dt) ==
  /\ steps < MaxClk
  /\ now' = now + dt
  /\ \E m \in {map_event_ts(lsl.clock, device, t_device, te, local_clock(now'))},
        b \in {DefGet(lsl.clock._per_device, device, _OffsetEWMA)} :
         /\ lsl' = [lsl EXCEPT !.clock = m.clock]
         /\ last' = [op |-> "map_event_ts", device |-> device, t_device |-> t_device,
                     te |-> te, ts_arrival |-> local_clock(now'), ts |-> m.ts,
                     before |-> b]
         /\ log' = Accepted(log, device, t_device, te, local_clock(now'), m, b)
  /\ steps' = steps + 1
  /\ UNCHANGED <<metrics, seen, hub, rx>>
  /\ UNCHANGED <<hkh, mirror, sup>>

\* ClockSync.reset(device)
reset(c, device) ==
  [c EXCEPT !._per_device = [d \in DOMAIN c._per_device \ {device} |-> c._per_device[d]]]

Reset(device) ==
  /\ steps < MaxClk
  /\ device \in DOMAIN lsl.clock._per_device
  /\ lsl' = [lsl EXCEPT !.clock = reset(lsl.clock, device)]
  /\ last' = [op |-> "reset", device |-> device]
  /\ log' = [d \in DOMAIN log \ {device} |-> log[d]]
  /\ steps' = steps + 1
  /\ UNCHANGED <<metrics, now, seen, hub, rx>>
  /\ UNCHANGED <<hkh, mirror, sup>>

NextClock ==
  \/ \E device \in ClkDevices, t_device \in ClkTDevice, te \in ClkTe, dt \in ClkDts :
        MapEventTs(device, t_device, te, dt)
  \/ \E device \in ClkDevices : Reset(device)

SpecClock == Init /\ [][NextClock]_vars

-----------------------------------------------------------------------------
(* Direct calls of the translator *)
HandleObjs ==
  { [type |-> JStr("hr"), device |-> JStr("H10"), bpm |-> JInt(60), t_device |-> JFlt(0)],
    [type |-> JStr("HR"), device |-> JStr("H10"), bpm |-> JInt(61), t_device |-> JFlt(0)],
    [type |-> JStr("hr"), device |-> JStr("H10")],
    [type |-> JStr("rr"), device |-> JStr("H10"), ms |-> JInt(812),
     t_device |-> JFlt(1), te |-> JFlt(2)],
    [type |-> JStr("ppi"), device |-> JStr("Verity"), ms |-> JInt(800),
     t_device |-> JFlt(1), te |-> JStr("late")],
    [type |-> JStr("ppi"), ms |-> JInt(800), te |-> JFlt(1)],
    [type |-> JStr("ecg"), device |-> JStr("H10"), fs |-> JFlt(130), uV |-> JList(4, 0)],
    [type |-> JStr("Acc"), device |-> JStr("H10"), fs |-> JFlt(50), mG |-> JList(2, 3)],
    [type |-> JStr("acc"), device |-> JStr("H10"), fs |-> JFlt(50), mG |-> JList(2, 2)],
    [type |-> JStr("ppg"), device |-> JStr("Verity"), fs |-> JFlt(55), ch |-> JInt(2),
     mU |-> JList(2, 2)],
    [type |-> JStr("ppg"), device |-> JStr("Verity"), fs |-> JFlt(55), ch |-> JInt(3),
     mU |-> JList(2, 3)],
    [type |-> JStr("Ppg"), device |-> JStr("Verity"), fs |-> JFlt(55), ch |-> JStr("3"),
     mU |-> JList(1, 4)],
    [type |-> JStr("marker"), label |-> JStr("baseline_start")],
    [type |-> JInt(3), device |-> JStr("H10")] }

RECURSIVE SumLen(_, _)
SumLen(fn, ks) ==
  IF ks = {} THEN 0
  ELSE LET k == CHOOSE x \in ks : TRUE IN Len(fn[k]) + SumLen(fn, ks \ {k})

\* history: the number of push_sample / push_chunk calls made so far
NPushed(e) == SumLen(e.pushed, DOMAIN e.pushed)

Handle(obj, dt) ==
  /\ steps < MaxHandle
  /\ now' = now + dt
  /\ \E h \in {handle(lsl, obj, QInt(now'))} :
         /\ lsl' = h.env
         /\ last' = [op |-> "handle", obj |-> obj, ret |-> h.ret, raised |-> h.raised,
                     pushes |-> NPushed(h.env) - NPushed(lsl)]
  /\ steps' = steps + 1
  /\ UNCHANGED <<metrics, seen, log, hub, rx>>
  /\ UNCHANGED <<hkh, mirror, sup>>

NextTranslator == \E obj \in HandleObjs, dt \in {1, 3} : Handle(obj, dt)

SpecTranslator == Init /\ [][NextTranslator]_vars

-----------------------------------------------------------------------------
(* Direct calls of PingPong *)
PPHints == {JNull, JStr("H10")}
PPLags == {1, 2, 3, 4, period + 1}     \* age of the ping a pong echoes, seconds
PPSendDts == {1, period}

Pong(t0) ==
  [type |-> JStr("pong"), device |-> JStr("Verity"), t0_pc |-> t0,
   t1_ph |-> JFlt(5), t2_ph |-> JFlt(6)]

\* the objects handed to on_datagram_json: a pong echoing the ping sent at
\* t0, a pong whose t0_pc is text, a pong without t1_ph, a packet of another
\* type
PPShapes == {"pong", "text", "short", "hr"}
PPObj(shape, t0) ==
  CASE shape = "pong" -> Pong(JFlt(t0))
    [] shape = "text" -> Pong(JStr("soon"))
    [] shape = "short" ->
         [type |-> JStr("pong"), device |-> JStr("Verity"), t0_pc |-> JFlt(t0)]
    [] OTHER ->
         [type |-> JStr("hr"), device |-> JStr("Verity"), t0_pc |-> JFlt(t0),
          t1_ph |-> JFlt(5), t2_ph |-> JFlt(6)]

UpdateEndpoint(device, addr) ==
  /\ steps < MaxPP
  /\ hub' = [hub EXCEPT !.pp = update_endpoint(@, device, addr)]
  /\ last' = [op |-> "update_endpoint"]
  /\ steps' = steps + 1
  /\ UNCHANGED <<metrics, lsl, now, seen, log, rx>>
  /\ UNCHANGED <<hkh, mirror, sup>>

MaybeSendPings(dt, sent) ==
  /\ steps < MaxPP
  /\ now' = now + dt
  /\ hub' = [hub EXCEPT !.pp = maybe_send_pings(@, time_time(now'), sent)]
  /\ last' = [op |-> "maybe_send_pings"]
  /\ steps' = steps + 1
  /\ UNCHANGED <<metrics, lsl, seen, log, rx>>
  /\ UNCHANGED <<hkh, mirror, sup>>

OnDatagramJson(shape, lag, hint) ==
  /\ steps < MaxPP
  /\ now' = now + 1
  /\ hub' = [hub EXCEPT !.pp = on_datagram_json(@, PPObj(shape, time_time(now') - lag),
                                                time_time(now'), hint)]
  /\ last' = [op |-> "on_datagram_json", obj |-> PPObj(shape, time_time(now') - lag),
              hint |-> hint]
  /\ steps' = steps + 1
  /\ UNCHANGED <<metrics, lsl, seen, log, rx>>
  /\ UNCHANGED <<hkh, mirror, sup>>

NextPingPong ==
  \/ \E device \in {JStr("H10"), JStr("Verity")}, addr \in {"10.0.0.2:50000"} :
        UpdateEndpoint(device, addr)
  \/ \E dt \in PPSendDts, sent \in {{}, {JStr("H10"), JStr("Verity")}} :
        MaybeSendPings(dt, sent)
  \/ \E shape \in PPShapes, lag \in PPLags, hint \in PPHints :
        OnDatagramJson(shape, lag, hint)

SpecPingPong == Init /\ [][NextPingPong]_vars

-----------------------------------------------------------------------------
(* The Polar worker *)
Addrs == {"10.0.0.2:50000"}

HbIntervals == {1, 2}
ControlPkts == {Pkt("ping", "H10", 1), Pkt("pong", "H10", 2),
                [type |-> JStr("hub_status"), event |-> JStr("started")]}

Startup(under_hub, hb_interval, bind_ok) ==
  /\ hub.pc = "start"
  /\ hub' = startup(hub, under_hub, hb_interval, bind_ok, now)
  /\ last' = [op |-> "startup"]
  /\ UNCHANGED <<metrics, lsl, now, steps, seen, log, rx>>
  /\ UNCHANGED <<hkh, mirror, sup>>

\* _sig_handler, run on SIGINT or SIGTERM
SigHandler ==
  /\ hub.pc = "recv"
  /\ ~hub.STOP_FLAG
  /\ hub' = [hub EXCEPT !.STOP_FLAG = TRUE]
  /\ last' = [op |-> "signal"]
  /\ UNCHANGED <<metrics, lsl, now, steps, seen, log, rx>>
  /\ UNCHANGED <<hkh, mirror, sup>>

\* a datagram arrives and the loop body runs on it
RecvDatagram(data, addr, dt, esc) ==
  /\ hub.pc = "recv"
  /\ steps < MaxDgram
  /\ now' = now + dt
  /\ \E r \in {iteration(hub, metrics, lsl, data, addr, now', esc)} :
         /\ hub' = r.hub
         /\ metrics' = r.metrics
         /\ lsl' = r.env
  /\ rx' = Append(rx, data)
  /\ last' = [op |-> "datagram", data |-> data, j |-> json_loads(decode(data))]
  /\ seen' = seen
  /\ steps' = steps + 1
  /\ UNCHANGED log
  /\ UNCHANGED <<hkh, mirror, sup>>

\* the process runs main() up to the receive loop
Main ==
  \E under_hub \in BOOLEAN, hb_interval \in HbIntervals, bind_ok \in BOOLEAN :
    Startup(under_hub, hb_interval, bind_ok)

NextPolar ==
  \/ Main
  \/ SigHandler
  \/ \E data \in Datagrams, addr \in Addrs, esc \in BOOLEAN :
        RecvDatagram(data, addr, 1, esc)

SpecPolar == Init /\ [][NextPolar]_vars

\* The worker under a fair scheduler: the steps it takes on its own are taken.
\* In the receive loop it has none: sock.setblocking(True) (line 206) and
\* recvfrom (line 267) return only when a datagram arrives, and the signal
\* handler returns into the same call.  Arrivals and signals come from outside
\* and are not fair.
SpecPolarFair == SpecPolar /\ WF_vars(Main)

\* the worker, and control packets handed to observe directly
Next == NextPolar \/ \E j \in ControlPkts : Observe(j, 1)

Spec == Init /\ [][Next]_vars

-----------------------------------------------------------------------------
(* The HKH worker *)
HkhAvail == {{}, {"COM3"}, {"COM5", "COM3"}}

\* what the serial link delivers at once: a frame with value 1, a frame with
\* value -2, a byte that is no header, a frame header alone, the payload
\* that follows it, a start byte alone, the rest of the frame it starts
Frame(hxh, hxl) == <<255, DEVICE_ID, 0, 0, 0, hxh, hxl>>
HkhChunks == {Frame(0, 1), Frame(255, 254), <<1>>, <<255, DEVICE_ID>>, <<0, 0, 0, 0, 1>>,
              <<255>>, <<DEVICE_ID, 0, 0, 0, 0, 1>>}
MaxBuf == 9

PolarVars == <<metrics, lsl, now, steps, seen, last, log, hub, rx>>

HkhPrologue(avail, under_hub, hb_interval) ==
  /\ hkh.pc = "probe"
  /\ hkh' = prologue(hkh, avail, under_hub, hb_interval)
  /\ UNCHANGED <<PolarVars, mirror, sup>>

HkhOpen(open_ok, csv_ok, start_ok, stop_ok) ==
  /\ hkh.pc = "main"
  /\ hkh' = open_port(hkh, open_ok, csv_ok, start_ok, stop_ok)
  /\ UNCHANGED <<PolarVars, mirror, sup>>

\* _sig_handler, once line 84 has registered it
HkhSignal ==
  /\ hkh.pc \in {"main", "loop", "read5"}
  /\ ~hkh.STOP_FLAG
  /\ hkh' = [hkh EXCEPT !.STOP_FLAG = TRUE]
  /\ UNCHANGED <<PolarVars, mirror, sup>>

\* bytes arrive from the device
HkhArrive(chunk) ==
  /\ hkh.pc \in {"loop", "read5"}
  /\ hkh.steps < MaxHkh
  /\ Len(hkh.in_buf) + Len(chunk) <= MaxBuf
  /\ hkh' = [hkh EXCEPT !.in_buf = @ \o chunk, !.delivered = @ \o chunk, !.steps = @ + 1]
  /\ UNCHANGED <<PolarVars, mirror, sup>>

HkhLoop(err, stop_ok, dt) ==
  /\ hkh.pc = "loop"
  /\ hkh.steps < MaxHkh
  /\ hkh' = [loop(hkh, header(hkh.in_buf), err, stop_ok, hkh.t + dt) EXCEPT !.steps = @ + 1]
  /\ UNCHANGED <<PolarVars, mirror, sup>>

HkhRead5(outcome, stop_ok) ==
  /\ hkh.pc = "read5"
  /\ hkh' = read5(hkh, outcome, stop_ok, hkh.t)
  /\ UNCHANGED <<PolarVars, mirror, sup>>

NextHKH ==
  \/ \E avail \in HkhAvail, under_hub \in BOOLEAN, hb_interval \in HbIntervals :
        HkhPrologue(avail, under_hub, hb_interval)
  \/ \E open_ok, csv_ok, start_ok, stop_ok \in BOOLEAN :
        HkhOpen(open_ok, csv_ok, start_ok, stop_ok)
  \/ HkhSignal
  \/ \E chunk \in HkhChunks : HkhArrive(chunk)
  \/ \E err, stop_ok \in BOOLEAN, dt \in {0, 1} : HkhLoop(err, stop_ok, dt)
  \/ \E outcome \in {"return", "error"}, stop_ok \in BOOLEAN : HkhRead5(outcome, stop_ok)

SpecHKH == Init /\ [][NextHKH]_vars

-----------------------------------------------------------------------------
(* The mirror *)
Markers == [sid |-> "pb_markers_S1_0a", sid8 |-> "pb_marke", name |-> "PB_MARKERS",
            numeric |-> FALSE]
Resp    == [sid |-> "HKH_Device", sid8 |-> "HKH_Devi", name |-> "HB_Respiration_HKH",
            numeric |-> TRUE]
\* the markers outlet of a Polar worker started again in the same session
Markers2 == [sid |-> "pb_markers_S1_0b", sid8 |-> "pb_marke", name |-> "PB_MARKERS",
             numeric |-> FALSE]
NoSid   == [sid |-> "", sid8 |-> "", name |-> "Anon", numeric |-> FALSE]

\* what resolve_streams returns
MirrorInfos == {<<>>, <<NoSid, Resp, Markers>>, <<Markers2>>}

\* what pull_chunk returns at time t for the values vs: samples with their
\* LSL timestamps, a tenth of a second apart
Samples(vs, t) == [i \in 1..Len(vs) |-> [ts |-> 10 * t + i, v |-> vs[i]]]

\* the values waiting on the string inlets and on the numeric inlets
MirrorFeeds ==
  { [string |-> <<>>, numeric |-> <<>>],
    [string |-> <<"hello", "stop">>, numeric |-> <<7>>],
    [string |-> <<"{\"cmd\":\"STOP\"}", "{\"label\":\"nonstop\"}">>, numeric |-> <<>>] }

\* how the mirror is started: alone, or by the supervisor with --session
MirrorArgs == { [session |-> "", under_hub |-> FALSE], [session |-> "S1", under_hub |-> TRUE] }

MirrorStart(session, under_hub, hb_interval) ==
  /\ mirror.pc = "start"
  /\ mirror' = mirror_main(mirror, session, under_hub, hb_interval, mirror.t)
  /\ UNCHANGED <<PolarVars, hkh, sup>>

MirrorSignal ==
  /\ mirror.pc = "loop"
  /\ ~mirror.STOP_FLAG
  /\ mirror' = [mirror EXCEPT !.STOP_FLAG = TRUE]
  /\ UNCHANGED <<PolarVars, hkh, sup>>

MirrorIteration(infos, feed, corr, dt, esc, fail) ==
  /\ mirror.pc = "loop"
  /\ mirror.steps < MaxMirror
  /\ mirror' = [mirror_iteration(mirror, infos,
                                  [string |-> Samples(feed.string, mirror.t + dt),
                                   numeric |-> Samples(feed.numeric, mirror.t + dt)],
                                  corr, mirror.t + dt, esc, fail)
                  EXCEPT !.steps = @ + 1]
  /\ UNCHANGED <<PolarVars, hkh, sup>>

NextMirror ==
  \/ \E args \in MirrorArgs, hb_interval \in {2} :
        MirrorStart(args.session, args.under_hub, hb_interval)
  \/ MirrorSignal
  \/ \E infos \in MirrorInfos, feed \in MirrorFeeds, corr \in {0}, dt \in {1, 3},
        esc \in BOOLEAN, fail \in {"", Markers.sid, Resp.sid} :
        MirrorIteration(infos, feed, corr, dt, esc, fail)

SpecMirror == Init /\ [][NextMirror]_vars

-----------------------------------------------------------------------------
(* The supervisor and its three workers *)
WorkerVars == <<metrics, lsl, now, steps, seen, last, log, rx>>

\* proc.poll() is None
Alive(c) ==
  CASE c = "Polar" -> hub.pc # "exited"
    [] c = "HKH" -> hkh.pc # "exited"
    [] OTHER -> mirror.pc # "exited"

\* the child has printed a line that holds "[READY]": the HKH worker at line
\* 103, the mirror at line 296; the Polar worker prints none
PrintedReady(c) ==
  CASE c = "Polar" -> FALSE
    [] c = "HKH" -> hkh.ready
    [] OTHER -> mirror.ready

\* the child has passed its signal.signal calls
HandlersInstalled(c) ==
  CASE c = "Polar" -> hub.pc = "recv"
    [] c = "HKH" -> hkh.pc \in {"main", "loop", "read5"}
    [] OTHER -> mirror.pc = "loop"

StopFlag(c) ==
  CASE c = "Polar" -> hub.STOP_FLAG
    [] c = "HKH" -> hkh.STOP_FLAG
    [] OTHER -> mirror.STOP_FLAG

\* what the final report prints for a child
ReportOf(c) ==
  CASE c = "Polar" -> hub.exit
    [] c = "HKH" -> ToString(hkh.exit_code)
    [] OTHER -> mirror.exit

SupMain(os) ==
  /\ sup.pc = "init"
  /\ sup' = sup_main(sup, os)
  /\ UNCHANGED <<WorkerVars, hub, hkh, mirror>>

\* _hub_sigint: ESC or Ctrl-C
SupSigint ==
  /\ sup.pc # "init"
  /\ ~sup.hub_stop
  /\ sup' = [sup EXCEPT !.hub_stop = TRUE]
  /\ UNCHANGED <<WorkerVars, hub, hkh, mirror>>

\* the line on which the child c says it is ready
ReadyLine(c) ==
  CASE c = "Polar" -> "[READY] polar"
    [] c = "HKH" -> "[READY] hkh"
    [] OTHER -> "[READY] mirror"

\* the reader thread of the child c reads its READY line
SupPump(c) ==
  /\ sup.pc # "init"
  /\ PrintedReady(c)
  /\ sup.emitted[c] = <<>>
  /\ sup' = _pump(sup, c, ReadyLine(c))
  /\ UNCHANGED <<WorkerVars, hub, hkh, mirror>>

SupLoop ==
  /\ sup.pc = "loop"
  /\ sup' = sup_iteration(sup, \E c \in Names : ~Alive(c))
  /\ UNCHANGED <<WorkerVars, hub, hkh, mirror>>

SupSoftTerm ==
  /\ sup.pc = "soft"
  /\ sup' = soft_term(sup, Children[sup.i], Alive(Children[sup.i]))
  /\ hub' = IF sup.i = 1 /\ Alive("Polar") THEN polar_signal(hub, SoftSignal(sup.os))
            ELSE hub
  /\ hkh' = IF sup.i = 2 /\ Alive("HKH") THEN hkh_signal(hkh, SoftSignal(sup.os)) ELSE hkh
  /\ mirror' = IF sup.i = 3 /\ Alive("Mirror")
               THEN mirror_signal(mirror, SoftSignal(sup.os)) ELSE mirror
  /\ UNCHANGED WorkerVars

SupWait ==
  /\ sup.pc = "wait"
  /\ sup' = wait(sup, \E c \in Names : Alive(c))
  /\ UNCHANGED <<WorkerVars, hub, hkh, mirror>>

\* Child.kill: proc.kill() ends a child that is alive, without its cleanup
SupKill ==
  /\ sup.pc = "kill"
  /\ sup' = kill(sup, Children[sup.i], Alive(Children[sup.i]))
  /\ hub' = IF sup.i = 1 /\ Alive("Polar")
            THEN [hub EXCEPT !.pc = "exited", !.exit = "killed"] ELSE hub
  /\ hkh' = IF sup.i = 2 /\ Alive("HKH")
            THEN [hkh EXCEPT !.pc = "exited", !.exit_code = -9] ELSE hkh
  /\ mirror' = IF sup.i = 3 /\ Alive("Mirror")
               THEN [mirror EXCEPT !.pc = "exited", !.exit = "killed"] ELSE mirror
  /\ UNCHANGED WorkerVars

SupReport ==
  /\ sup.pc = "report"
  /\ sup' = report(sup, [i \in 1..Len(Children) |-> ReportOf(Children[i])])
  /\ UNCHANGED <<WorkerVars, hub, hkh, mirror>>

\* the workers as the supervisor starts them: --under-hub, --hb-interval 2,
\* a session id; they run once they are started
SuitePolar ==
  /\ sup.pc # "init"
  /\ \/ \E bind_ok \in BOOLEAN : Startup(TRUE, 2, bind_ok)
     \/ /\ steps < MaxSuite
        /\ RecvDatagram("{\"type\":\"hr\",\"device\":\"H10\",\"bpm\":60,\"t_device\":0,\"seq\":0}",
                        "10.0.0.2:50000", 1, FALSE)

SuiteHKH ==
  /\ sup.pc # "init"
  /\ \/ \E avail \in {{}, {"COM3"}} : HkhPrologue(avail, TRUE, 2)
     \/ HkhOpen(TRUE, TRUE, TRUE, TRUE)
     \/ (hkh.steps < MaxSuite /\ HkhLoop(FALSE, TRUE, 1))

SuiteMirror ==
  /\ sup.pc # "init"
  /\ \/ MirrorStart("S1", TRUE, 2)
     \/ /\ mirror.steps < MaxSuite
        /\ MirrorIteration(<<>>, [string |-> <<>>, numeric |-> <<>>], 0, 1, FALSE, "")

NextSuite ==
  \/ \E os \in {"posix", "nt"} : SupMain(os)
  \/ SupSigint
  \/ \E c \in Names : SupPump(c)
  \/ SupLoop
  \/ SupSoftTerm
  \/ SupWait
  \/ SupKill
  \/ SupReport
  \/ SuitePolar
  \/ SuiteHKH
  \/ SuiteMirror

SpecSuite == Init /\ [][NextSuite]_vars

\* The suite under a fair scheduler.  The supervisor's loop and its shutdown
\* path never block (get_nowait, poll, sleep), the reader threads read what
\* the children print, and the HKH worker and the mirror poll with timeouts,
\* so each of these steps is taken when it stays possible.  The Polar worker
\* blocks in recvfrom, and datagrams and the user's ESC come from outside.
SpecSuiteFair ==
  /\ SpecSuite
  /\ WF_vars(\E os \in {"posix", "nt"} : SupMain(os))
  /\ WF_vars(\E c \in Names : SupPump(c))
  /\ WF_vars(SupLoop) /\ WF_vars(SupSoftTerm) /\ WF_vars(SupWait)
  /\ WF_vars(SupKill) /\ WF_vars(SupReport)
  /\ WF_vars(sup.pc # "init" /\ \E bind_ok \in BOOLEAN : Startup(TRUE, 2, bind_ok))
  /\ WF_vars(SuiteHKH) /\ WF_vars(SuiteMirror)

-----------------------------------------------------------------------------
(* The supervisor's main loop on the output lines of its children *)
\* what a child may write: its READY line, and for the HKH worker heartbeats
\* (one with leading blanks), a JSON line that is no heartbeat, a line that
\* starts with a brace and is no JSON, a liblsl noise line and plain text
HubLines ==
  { [c |-> "Polar", line |-> "[READY] polar"],
    [c |-> "Mirror", line |-> "[READY] mirror"],
    [c |-> "HKH", line |-> "[READY] hkh"],
    [c |-> "HKH", line |-> "  {\"hb\":\"hkh\",\"recent_samples\":1}"],
    [c |-> "HKH", line |-> "{\"hb\":\"hkh\",\"recent_samples\":2}"],
    [c |-> "HKH", line |-> "{\"hb\":\"lab\"}"],
    [c |-> "HKH", line |-> "{\"hb\":"],
    [c |-> "HKH", line |-> "INFO| common.cpp:65 git:v1.16"],
    [c |-> "HKH", line |-> "[HKH] port open"] }

\* the reader thread of the child c reads a line the child wrote
ChildLine(c, line) ==
  /\ sup.pc = "loop"
  /\ Len(sup.emitted[c]) < MaxLines
  /\ sup' = _pump(sup, c, line)
  /\ UNCHANGED <<WorkerVars, hub, hkh, mirror>>

NextHubLines ==
  \/ SupMain("posix")
  \/ \E l \in HubLines : ChildLine(l.c, l.line)
  \/ SupLoop
  \/ SupSigint

SpecHubLines == Init /\ [][NextHubLines]_vars

-----------------------------------------------------------------------------
(* Properties *)

Distinct(sq) == \A a, b \in DOMAIN sq : a # b => sq[a] # sq[b]

RECURSIVE MaxOf(_, _)
\* the largest of sq[1..i], i >= 1
MaxOf(sq, i) == IF i = 1 THEN sq[1] ELSE QMax(sq[i], MaxOf(sq, i - 1))

RECURSIVE SumGaps(_, _)
\* the sum of seq - previous maximum - 1 over the packets 2..i that advance the maximum
SumGaps(sq, i) ==
  IF i <= 1 THEN 0
  ELSE SumGaps(sq, i - 1)
       + (IF sq[i] > MaxOf(sq, i - 1) THEN sq[i] - MaxOf(sq, i - 1) - 1 ELSE 0)

Late(sq) == {i \in 2..Len(sq) : sq[i] < MaxOf(sq, i - 1)}

\* C1: for every key, last_seq is the largest seq observed so far for that
\* key (so a packet with a lower seq leaves it unchanged).
C1_LastSeqIsMax ==
  \A k \in DOMAIN seen :
    k \in DOMAIN metrics.last_seq /\ metrics.last_seq[k] = MaxOf(seen[k], Len(seen[k]))

\* C2: for pairwise distinct seq values of one key, missing equals the sum of
\* the forward gaps; late packets and the packets after them add nothing.
C2_MissingIsSumOfGaps ==
  \A k \in DOMAIN seen :
    Distinct(seen[k]) => DefGet(metrics.pkts_miss, k, 0) = SumGaps(seen[k], Len(seen[k]))

\* C3: for pairwise distinct seq values of one key, out_of_order equals the
\* number of packets whose seq is lower than the maximum seen before them.
C3_OooIsLateCount ==
  \A k \in DOMAIN seen :
    Distinct(seen[k]) => DefGet(metrics.pkts_ooo, k, 0) = Cardinality(Late(seen[k]))

SamePair(a, b) == a.typ = b.typ /\ a.device = b.device
FirstCall(i) == CHOOSE j \in 1..i : SamePair(log[j], log[i]) /\
                                    \A h \in 1..(j - 1) : ~SamePair(log[h], log[i])

\* C8: ensure is idempotent on (kind, device): only the first call with a
\* (kind, device) can create an outlet, and every call with that pair returns
\* the outlet the first call with it returned.
C8_EnsureIdempotent ==
  \A i \in DOMAIN log :
    /\ log[i].created => FirstCall(i) = i
    /\ log[i].outlet = log[FirstCall(i)].outlet
    /\ log[FirstCall(i)].outlet \in 1..lsl.registry.nmade

C8_Witness ==
  \E i \in DOMAIN log : FirstCall(i) # i /\ ~log[i].created /\ log[FirstCall(i)].created

\* C9: an ensure call for a registered (kind, device) whose channels, rate or
\* units differ from those of the first call raises an error.
C9_MismatchRaises ==
  \A i \in DOMAIN log :
    LET a == log[FirstCall(i)] IN
      (<<log[i].channels, log[i].srate, log[i].units>> # <<a.channels, a.srate, a.units>>)
        => log[i].raised

AlphaClamp == QFrac(QInt(clamp_s), AlphaNum)

\* C10: a single update of an initialized offset O changes O by at most
\* alpha * clamp_s, also when |sample - O| > clamp_s.
C10_ShiftBounded ==
  [][\A d \in DOMAIN lsl.clock._per_device \cap DOMAIN lsl'.clock._per_device :
        (lsl.clock._per_device[d].inited /\ lsl'.clock._per_device[d].inited)
          => QLeq(QAbs(QSub(lsl'.clock._per_device[d].offset,
                            lsl.clock._per_device[d].offset)), AlphaClamp)]_vars

\* the latest call updated an initialized offset with a sample beyond the clamp
C10_Witness ==
  /\ last.op = "map_event_ts"
  /\ last.t_device.t # "null"
  /\ last.before.inited
  /\ QLess(QInt(clamp_s),
           QAbs(QSub(QSub(last.ts_arrival, QInt(last.t_device.n)), last.before.offset)))
  /\ lsl.clock._per_device[last.device].offset # last.before.offset

\* the fields the dispatch table requires for each type, and numeric
\* timestamps where given
ValidFields(o, typ) ==
  /\ Get(o, "t_device").t \in {"null", "int", "float"}
  /\ Get(o, "te").t \in {"null", "int", "float"}
  /\ CASE typ = "hr"  -> isNum(Get(o, "bpm"))
       [] typ \in {"rr", "ppi"} -> isNum(Get(o, "ms"))
       [] typ = "ecg" -> isNum(Get(o, "fs")) /\ isList(Get(o, "uV"))
                         /\ Get(o, "uV").n > 0 /\ Get(o, "uV").w = 0
       [] typ = "acc" -> isNum(Get(o, "fs")) /\ isList(Get(o, "mG"))
                         /\ Get(o, "mG").n > 0 /\ Get(o, "mG").w >= 3
       [] typ = "ppg" -> isNum(Get(o, "fs")) /\ isInt(Get(o, "ch")) /\ Get(o, "ch").n > 0
                         /\ isList(Get(o, "mU")) /\ Get(o, "mU").n > 0
                         /\ Get(o, "mU").w >= Get(o, "ch").n
       [] OTHER -> FALSE

\* C7: an object whose type is hr, rr, ppi, ecg, acc or ppg in any letter
\* case, with valid required fields, is consumed: handle returns true and
\* pushes one sample or chunk.
C7_CaseInsensitiveDispatch ==
  (last.op = "handle" /\ isStr(Get(last.obj, "type"))
     /\ ValidFields(last.obj, lower(Get(last.obj, "type").s)))
    => (last.ret /\ last.pushes = 1)

IsControlObj(o) ==
  isStr(Get(o, "type")) /\ Get(o, "type").s \in {"ping", "pong", "hub_status"}

IsMarkerObj(o) == isStr(Get(o, "type")) /\ Get(o, "type").s = "marker"

\* the device label of an object: device, else deviceLabel, else deviceId
LabelOf(o) == PyOr(PyOr(Get(o, "device"), Get(o, "deviceLabel")), Get(o, "deviceId"))

\* C4: a ping, pong or hub_status packet, processed by the worker or passed
\* to observe, leaves every counter, last_seq and both windows of every key
\* as they were.
C4_ControlLeavesMetrics ==
  [][((last'.op = "observe" /\ IsControlObj(last'.j))
      \/ (last'.op = "datagram" /\ last'.j.kind = "dict" /\ IsControlObj(last'.j.obj)))
       => metrics' = metrics]_vars

\* the worker has just processed a control packet while it holds statistics
C4_Witness ==
  /\ last.op = "datagram" /\ last.j.kind = "dict" /\ IsControlObj(last.j.obj)
  /\ DOMAIN metrics.pkts_recv # {}
  /\ DOMAIN metrics.last_seq # {}

\* C5 as stated: a marker datagram changes no StreamMetrics state, whatever
\* other fields it carries.
C5_MarkerLeavesMetrics ==
  [][(last'.op = "datagram" /\ last'.j.kind = "dict" /\ IsMarkerObj(last'.j.obj))
       => metrics' = metrics]_vars

OtherKeysSame(d1, d2, k) ==
  /\ DOMAIN d2 \ {k} = DOMAIN d1 \ {k}
  /\ \A x \in DOMAIN d1 \ {k} : d2[x] = d1[x]

\* C5 amended: a marker datagram without a string device label changes no
\* StreamMetrics state; one with a device label is counted once under the
\* key (device, "marker") and changes nothing of any other key.
C5_MarkerWithoutDevice ==
  [][(last'.op = "datagram" /\ last'.j.kind = "dict" /\ IsMarkerObj(last'.j.obj))
       => LET dev == LabelOf(last'.j.obj)
              k == <<dev.s, "marker">>
          IN  IF ~isStr(dev) THEN metrics' = metrics
              ELSE /\ metrics'.pkts_recv[k] = DefGet(metrics.pkts_recv, k, 0) + 1
                   /\ OtherKeysSame(metrics.pkts_recv, metrics'.pkts_recv, k)
                   /\ OtherKeysSame(metrics.pkts_miss, metrics'.pkts_miss, k)
                   /\ OtherKeysSame(metrics.pkts_ooo, metrics'.pkts_ooo, k)
                   /\ OtherKeysSame(metrics.last_seq, metrics'.last_seq, k)
                   /\ OtherKeysSame(metrics.wins_s, metrics'.wins_s, k)
                   /\ OtherKeysSame(metrics.wins_l, metrics'.wins_l, k)]_vars

\* the worker has just processed a marker without device while it holds statistics
C5_Witness ==
  /\ last.op = "datagram" /\ last.j.kind = "dict" /\ IsMarkerObj(last.j.obj)
  /\ ~isStr(LabelOf(last.j.obj))
  /\ DOMAIN metrics.pkts_recv # {}
  /\ hub.outlet_mark[Len(hub.outlet_mark)] = "baseline_start"

\* C6: every datagram received, whatever its classification, is pushed
\* exactly once, as its decoded text, on PB_UDP.
C6_EveryDatagramOnUdp ==
  hub.pc # "start" /\ hub.exit # "bind failed"
    => /\ hub.outlet_data = <<HubStatusText>> \o [i \in 1..Len(rx) |-> decode(rx[i])]
       /\ hub.cnt_text = 1 + Len(rx)

\* a marker, a control packet and texts that are not JSON objects have been received
C6_Witness ==
  /\ \E i \in DOMAIN rx : json_loads(decode(rx[i])).kind = "error"
  /\ \E i \in DOMAIN rx : json_loads(decode(rx[i])).kind = "dict"
                          /\ IsMarkerObj(json_loads(decode(rx[i])).obj)
  /\ \E i \in DOMAIN rx : decode(rx[i]) = ""
  /\ Len(hub.outlet_data) = 4

\* the device time that is mapped: te when given, else t_device
DevTs(r) == IF r.te.t # "null" THEN r.te.n ELSE r.t_device.n

\* C11: for two consecutive accepted calls of map_event_ts for one device
\* (no reset between them), neither clamped, with device timestamps that do
\* not decrease, the returned host timestamps do not decrease.
C11_MonotonicMapping ==
  \A d \in DOMAIN log :
    (/\ log[d].prev # <<>>
     /\ ~log[d].cur.clamped /\ ~log[d].prev[1].clamped
     /\ log[d].cur.t_device.n >= log[d].prev[1].t_device.n
     /\ DevTs(log[d].cur) >= DevTs(log[d].prev[1]))
      => QLeq(log[d].prev[1].ts, log[d].cur.ts)

\* C12: a call of map_event_ts for one device leaves the estimator of every
\* other device (its existence, its initialized flag, its offset) unchanged.
C12_PerDeviceIndependent ==
  [][last'.op = "map_event_ts" =>
       \A d \in (DOMAIN lsl.clock._per_device \cup DOMAIN lsl'.clock._per_device)
                 \ {last'.device} :
          /\ d \in DOMAIN lsl.clock._per_device
          /\ d \in DOMAIN lsl'.clock._per_device
          /\ lsl'.clock._per_device[d] = lsl.clock._per_device[d]]_vars

\* the latest call moved the offset of its device while another device has an
\* initialized estimator with a different offset
C12_Witness ==
  /\ last.op = "map_event_ts"
  /\ last.before.inited
  /\ lsl.clock._per_device[last.device].offset # last.before.offset
  /\ \E d \in DOMAIN lsl.clock._per_device \ {last.device} :
        /\ lsl.clock._per_device[d].inited
        /\ lsl.clock._per_device[d].offset # lsl.clock._per_device[last.device].offset

\* the device a pong is matched against, line 48
PongDev(obj, hint) ==
  PyOr(PyOr(PyOr(hint, Get(obj, "device")), Get(obj, "deviceLabel")), JStr("UNKNOWN"))

\* a ping is pending for the device of the pong and lies within 2 s of t0_pc
PongMatches(p, obj, hint) ==
  /\ PongDev(obj, hint) \in DOMAIN p._pending
  /\ isNum(Get(obj, "t0_pc"))
  /\ p._pending[PongDev(obj, hint)] - Get(obj, "t0_pc").n \in -2..2

\* C13: a pong changes last or pending only if a ping is pending for its
\* device within 2 s of its t0_pc; any other pong leaves last and pending as
\* they were, for every device.
C13_PongNeedsPendingPing ==
  [][(last'.op = "on_datagram_json" /\ ~PongMatches(hub.pp, last'.obj, last'.hint))
       => (hub'.pp.last = hub.pp.last /\ hub'.pp._pending = hub.pp._pending)]_vars

\* the latest pong carried a t0_pc one period older than the ping pending for
\* its device (the reply to a ping that has been replaced), and was dropped
C13_Witness ==
  /\ last.op = "on_datagram_json"
  /\ Get(last.obj, "type") = JStr("pong")
  /\ PongDev(last.obj, last.hint) \in DOMAIN hub.pp._pending
  /\ isNum(Get(last.obj, "t0_pc"))
  /\ hub.pp._pending[PongDev(last.obj, last.hint)] - Get(last.obj, "t0_pc").n = period
  /\ hub.pp.last = <<>>

\* a pong that matched its pending ping was recorded
C13_Recorded ==
  /\ last.op = "on_datagram_json"
  /\ PongDev(last.obj, last.hint) \in DOMAIN hub.pp.last
  /\ PongDev(last.obj, last.hint) \notin DOMAIN hub.pp._pending

\* C14: every summary tick prints a heartbeat line and appends a journal line
\* and the loop goes on; a tick is taken whenever the heartbeat interval given
\* to the worker has passed at the end of an iteration, stand-alone or under
\* the supervisor.
C14_TickEmitsHeartbeat ==
  /\ hub.heartbeats = hub.ticks
  /\ hub.journal = hub.ticks
  /\ hub.exit # "AttributeError"
  /\ (last.op = "datagram" /\ hub.pc = "recv") => now - hub.t0 < QMax(1, hub.hb_interval)

\* C15: once the stop flag is set the worker leaves the receive loop and
\* runs its cleanup, whether or not another datagram arrives.
C15_StopFlagLeadsToExit == hub.STOP_FLAG ~> hub.pc = "exited"

\* C16: whenever the HKH worker has ended after opening the serial port, the
\* port is closed and the last write made on it is the stop command
\* FF CC 03 A4 A1.
C16_StopBeforeClose ==
  /\ hkh.pc = "exited" => hkh.ser # "open"
  /\ hkh.ser = "closed" =>
        (hkh.wire # <<>> /\ hkh.wire[Len(hkh.wire)].cmd = <<255, 204, 3, 164, 161>>)

\* the worker ended on a serial error, with no stop signal, after it had
\* pushed a sample
C16_Witness ==
  /\ hkh.pc = "exited"
  /\ hkh.ser = "closed"
  /\ ~hkh.STOP_FLAG
  /\ hkh.pushed # <<>>

\* C17: a worker that ended without ever opening the serial port ended with
\* exit code 3.
C17_NoPortExitCode3 ==
  (hkh.pc = "exited" /\ hkh.ser = "none") => hkh.exit_code = 3

\* C18: a pull that records a stop marker leaves the stop flag as it was, and
\* the mirror leaves its loop only on ESC or on a stop signal.
C18_StopIsRecordOnly ==
  [][/\ Len(mirror'.stop_markers) > Len(mirror.stop_markers)
          => mirror'.STOP_FLAG = mirror.STOP_FLAG
     /\ (mirror.pc = "loop" /\ mirror'.pc = "exited")
          => mirror'.exit \in {"esc", "stop flag"}]_vars

\* every entry of every session_index.json names a stream file that exists
\* in the same directory
IndexedFilesExist ==
  \A dir \in DOMAIN mirror.disk_index :
    \A i \in DOMAIN mirror.disk_index[dir] :
      <<dir, mirror.disk_index[dir][i].file>> \in DOMAIN mirror.files

\* C19: after a discovery round, and after a clean shutdown, every entry of
\* session_index.json names a file that exists, also for a stream that has
\* delivered no samples.
C19_IndexedFilesExist ==
  /\ (mirror.pc = "loop" /\ mirror.steps > 0) => IndexedFilesExist
  /\ (mirror.pc = "exited" /\ mirror.exit \in {"esc", "stop flag"}) => IndexedFilesExist

\* C20: an iteration in which the write of a stream file raised, and in which
\* neither ESC nor the stop flag ended the loop, leaves the mirror in its loop.
C20_WriterFailureContained ==
  [][(/\ mirror.pc = "loop"
      /\ mirror'.io_errors > mirror.io_errors
      /\ mirror'.exit \notin {"esc", "stop flag"})
       => mirror'.pc = "loop"]_vars

\* the finally block closed every writer before it wrote session_end.json
ClosedThenEnded ==
  /\ mirror.journal # <<>>
  /\ mirror.journal[Len(mirror.journal)].step = "session_end"
  /\ \A sid \in DOMAIN mirror.writers :
       \E i \in 1..(Len(mirror.journal) - 1) :
          mirror.journal[i].step = "close" /\ mirror.journal[i].sid = sid

\* C21: when the mirror has ended on ESC or on a stop signal and no write of
\* a stream file raised, every writer is closed with an empty buffer, every
\* row built from a pulled chunk is in the stream's file, in order, and
\* session_end.json was written after the writers were closed.
C21_CloseThenSessionEnd ==
  (/\ mirror.pc = "exited"
   /\ mirror.exit \in {"esc", "stop flag"}
   /\ mirror.io_errors = 0)
    => /\ \A sid \in DOMAIN mirror.writers :
            /\ mirror.writers[sid].closed
            /\ mirror.writers[sid].buf = <<>>
            /\ mirror.pulled[sid] # <<>>
                 => /\ mirror.writers[sid].path \in DOMAIN mirror.files
                    /\ mirror.files[mirror.writers[sid].path] = mirror.pulled[sid]
       /\ mirror.session_end = mirror.session_dir
       /\ ClosedThenEnded

\* the mirror ended on a stop signal and close flushed rows that were still
\* buffered
C21_Witness ==
  /\ mirror.pc = "exited"
  /\ mirror.exit = "stop flag"
  /\ mirror.io_errors = 0
  /\ \E i \in DOMAIN mirror.journal :
        mirror.journal[i].step = "close" /\ mirror.journal[i].rows > 0

\* C26: a call of map_event_ts with a t_device, for a device whose estimator
\* is not initialized, sets the offset to ts_arrival - t_device and returns
\* te (else t_device) plus that offset; without te it returns ts_arrival.
C26_FirstCallSetsOffset ==
  (/\ last.op = "map_event_ts"
   /\ last.t_device.t # "null"
   /\ ~last.before.inited)
    => /\ lsl.clock._per_device[last.device].inited
       /\ lsl.clock._per_device[last.device].offset
            = QSub(last.ts_arrival, QInt(last.t_device.n))
       /\ last.ts = QAdd(QInt(DevTs(last)), QSub(last.ts_arrival, QInt(last.t_device.n)))
       /\ last.te.t = "null" => last.ts = last.ts_arrival

\* the first call for a device after a reset, with a te that differs from
\* t_device
C26_Witness ==
  /\ last.op = "map_event_ts"
  /\ last.t_device.t # "null"
  /\ ~last.before.inited
  /\ last.te.t # "null"
  /\ last.te.n # last.t_device.n
  /\ steps > 1
  /\ last.ts # last.ts_arrival

\* the first call of a device without te returned the arrival time
C26_WitnessArrival ==
  /\ last.op = "map_event_ts"
  /\ last.t_device.t # "null"
  /\ last.t_device.n # 0
  /\ ~last.before.inited
  /\ last.te.t = "null"
  /\ last.ts = last.ts_arrival

\* C27: the measurement of a device is written only by a step that finds a
\* ping pending for the device and leaves none pending, so that each ping is
\* answered by at most one measurement.
C27_OneMeasurementPerPing ==
  [][\A d \in DOMAIN hub'.pp.last :
        (d \notin DOMAIN hub.pp.last \/ hub'.pp.last[d] # hub.pp.last[d])
          => (d \in DOMAIN hub.pp._pending /\ d \notin DOMAIN hub'.pp._pending)]_vars

\* a second pong echoing the ping of a measurement recorded one second
\* earlier was dropped: last keeps the first measurement
C27_Witness ==
  /\ last.op = "on_datagram_json"
  /\ Get(last.obj, "type") = JStr("pong")
  /\ isNum(Get(last.obj, "t0_pc")) /\ isNum(Get(last.obj, "t1_ph"))
  /\ Get(last.obj, "t0_pc").n = hub.pp._last_sent_ts
  /\ PongDev(last.obj, last.hint) \in DOMAIN hub.pp.last
  /\ hub.pp.last[PongDev(last.obj, last.hint)].ts_pc = time_time(now) - 1
  /\ PongDev(last.obj, last.hint) \notin DOMAIN hub.pp._pending

\* the values of the frames a parser that resynchronizes on every 0xFF finds
\* in the bytes b from position i on: a frame is FF CC and 5 payload bytes,
\* all present; frames that start at or after position lim are left out
RECURSIVE FrameValues(_, _, _)
FrameValues(b, i, lim) ==
  IF i > Len(b) \/ i >= lim THEN <<>>
  ELSE IF i + 6 <= Len(b) /\ b[i] = 255 /\ b[i + 1] = DEVICE_ID
  THEN <<unpack_h(b[i + 5], b[i + 6])>> \o FrameValues(b, i + 7, lim)
  ELSE FrameValues(b, i + 1, lim)

\* the position in hkh.delivered of the next byte the read loop will look at
\* for a start byte (the header of a frame whose payload is being read is not
\* behind it yet)
ParserPos ==
  Len(hkh.delivered) - Len(hkh.in_buf) + 1 - (IF hkh.pc = "read5" THEN 2 ELSE 0)

\* the delivered bytes are whole frames and the beginning of one
InSync(b) ==
  \A i \in DOMAIN b : /\ i % 7 = 1 => b[i] = 255
                      /\ i % 7 = 2 => b[i] = DEVICE_ID

\* the first position of b at which a whole frame starts, 0 when there is none
RECURSIVE FirstFrame(_, _)
FirstFrame(b, i) ==
  IF i + 6 > Len(b) THEN 0
  ELSE IF b[i] = 255 /\ b[i + 1] = DEVICE_ID THEN i
  ELSE FirstFrame(b, i + 1)

\* C29: when the first whole frame the link delivered follows bytes that form
\* no frame, and the read loop is running and has gone past the start of that
\* frame without a read timing out, the first sample pushed is the value of
\* that frame.
C29_ResyncOnNextFF ==
  (/\ hkh.pc \in {"loop", "read5"}
   /\ hkh.timeouts = 0
   /\ FirstFrame(hkh.delivered, 1) > 1
   /\ ParserPos > FirstFrame(hkh.delivered, 1))
    => /\ hkh.pushed # <<>>
       /\ hkh.pushed[1] = FrameValues(hkh.delivered, 1, Len(hkh.delivered) + 1)[1]

\* C30: while the read loop is running, the delivered bytes are in sync and
\* no read has timed out, the samples pushed are the values of the frames the
\* read loop has gone past, one per frame, in order.
C30_OneSamplePerFrame ==
  (hkh.pc \in {"loop", "read5"} /\ hkh.timeouts = 0 /\ InSync(hkh.delivered))
    => hkh.pushed = FrameValues(hkh.delivered, 1, ParserPos)

\* the three workers have started successfully and the supervisor is looping
AllStarted ==
  /\ sup.pc = "loop"
  /\ hub.pc = "recv"
  /\ hkh.pc \in {"loop", "read5"}
  /\ mirror.pc = "loop"

\* C22: once the three workers have started successfully under the
\* supervisor, the supervisor eventually prints its all-ready message, unless
\* it leaves its main loop first.
C22_AllReadyEventually == AllStarted ~> (sup.all_ready > 0 \/ sup.pc # "loop")

InSeq(x, q) == \E k \in DOMAIN q : q[k] = x

\* some child has exited while the supervisor is in its main loop
EarlyExit == sup.pc = "loop" /\ \E c \in Names : ~Alive(c)

\* C23: when a child has exited while the supervisor's main loop runs, the
\* supervisor leaves the loop for its shutdown path, and when the soft-stop
\* loop is over every child still running has been sent the soft-stop.
C23_ChildExitStopsAll ==
  /\ EarlyExit ~> (sup.pc # "loop")
  /\ [](sup.pc = "wait" => \A c \in Names : Alive(c) => InSeq(c, sup.softs))

C23_Witness ==
  /\ sup.why = "early exit"
  /\ sup.pc = "wait"
  /\ Len(sup.softs) = 2
  /\ \E c \in Names : Alive(c) /\ StopFlag(c)

\* C24: a step that soft-stops a child is a step of the soft-stop loop on a
\* child that is running, taken before any force-kill; a step that force-kills
\* a child is a step of the kill loop on a child that is still running, to
\* which the soft-stop was sent, after a wait that ended at the deadline of
\* SOFT_TIMEOUT seconds; a child that has exited is neither signalled nor
\* killed.
C24_SoftStopBeforeKill ==
  [][\A c \in Names :
       /\ (InSeq(c, sup'.softs) /\ ~InSeq(c, sup.softs))
            => (sup.pc = "soft" /\ Alive(c) /\ sup.kills = <<>>)
       /\ (InSeq(c, sup'.kills) /\ ~InSeq(c, sup.kills))
            => /\ sup.pc = "kill"
               /\ Alive(c)
               /\ InSeq(c, sup.softs)
               /\ sup.waited = SOFT_TIMEOUT
       /\ ~Alive(c) => (InSeq(c, sup'.softs) <=> InSeq(c, sup.softs))
       /\ ~Alive(c) => (InSeq(c, sup'.kills) <=> InSeq(c, sup.kills))]_vars

\* the HKH worker exited before its turn and was left alone, the Polar worker
\* was sent the soft-stop, stayed in recvfrom and was killed
C24_Witness ==
  /\ sup.pc = "done"
  /\ sup.kills = <<"Polar">>
  /\ InSeq("Polar", sup.softs)
  /\ ~InSeq("HKH", sup.softs)
  /\ InSeq("Mirror", sup.softs) /\ mirror.exit = "stop flag"

\* C25: once the supervisor is on its shutdown path it reaches the end of it,
\* where the report of every child and the final message have been printed,
\* whether or not the children respond to the soft-stop.
C25_ShutdownTerminates ==
  (sup.pc \in {"soft", "wait", "kill", "report"})
    ~> (sup.pc = "done" /\ Len(sup.reports) = Len(Children) /\ sup.final)

\* a child never responded and was killed; the path still ended
C25_Witness ==
  /\ sup.pc = "done"
  /\ sup.final
  /\ Len(sup.reports) = Len(Children)
  /\ sup.kills # <<>>

\* every child responded to the soft-stop
C25_WitnessCooperative ==
  /\ sup.pc = "done"
  /\ sup.final
  /\ Len(sup.softs) = Len(Children)
  /\ sup.kills = <<>>

\* C28: a soft-stop sent, on either platform, to a worker that has registered
\* its signal handlers only sets the worker's stop flag: the worker is still
\* running after the signal, where it stood, with its flag set.
C28_SoftStopOnlySetsFlag ==
  [][\A c \in Names :
       (InSeq(c, sup'.softs) /\ ~InSeq(c, sup.softs) /\ HandlersInstalled(c))
         => (Alive(c)' /\ StopFlag(c)')]_vars

\* the payload is a JSON object whose label or cmd is "stop" in any case, or
\* it is no JSON object and holds "stop"
SaysStop(text) ==
  IF payload_loads(text).kind = "dict"
  THEN \/ lower(IF "label" \in DOMAIN payload_loads(text).obj
                THEN PyStr(payload_loads(text).obj["label"]) ELSE "") = "stop"
       \/ lower(IF "cmd" \in DOMAIN payload_loads(text).obj
                THEN PyStr(payload_loads(text).obj["cmd"]) ELSE "") = "stop"
  ELSE has_stop(text)

RECURSIVE StopPayloads(_)
StopPayloads(rows) ==
  IF rows = <<>> THEN <<>>
  ELSE (IF SaysStop(Head(rows).v) THEN <<Head(rows).v>> ELSE <<>>) \o StopPayloads(Tail(rows))

\* the number of such payloads pulled from the string outlets sids
RECURSIVE StopCount(_)
StopCount(sids) ==
  IF sids = <<>> THEN 0
  ELSE (IF mirror.meta[Head(sids)].numeric THEN 0
        ELSE Len(StopPayloads(mirror.pulled[Head(sids)]))) + StopCount(Tail(sids))

\* C31: the stop records are as many as the payloads pulled from the string
\* outlets that are a JSON object whose label or cmd equals "stop" or a text
\* that is no JSON and holds "stop", and each record is of such a payload.
C31_StopRecordExactly ==
  /\ Len(mirror.stop_markers) = StopCount(mirror.inlets)
  /\ \A i \in DOMAIN mirror.stop_markers : SaysStop(mirror.stop_markers[i].label)

\* C40: every stop record of a payload that says stop carries the corrected
\* timestamp of a pulled sample of its stream whose payload is the record's
\* label.
C40_StopRecordTime ==
  \A i \in DOMAIN mirror.stop_markers :
    SaysStop(mirror.stop_markers[i].label) =>
    \E sid \in DOMAIN mirror.pulled :
      \E k \in DOMAIN mirror.pulled[sid] :
        /\ mirror.meta[sid].name = mirror.stop_markers[i].stream
        /\ mirror.pulled[sid][k].v = mirror.stop_markers[i].label
        /\ mirror.pulled[sid][k].ts = mirror.stop_markers[i].time_lsl

\* C32: at the end of every iteration of the pull loop, a writer with buffered
\* rows holds fewer than FLUSH_ROWS of them and was flushed (or created) less
\* than FLUSH_SEC seconds plus the length of the iteration ago.
C32_FlushedWhenDue ==
  [][(mirror'.pc = "loop" /\ mirror'.steps # mirror.steps)
       => \A sid \in DOMAIN mirror'.writers :
            mirror'.writers[sid].buf # <<>>
              => /\ Len(mirror'.writers[sid].buf) < FLUSH_ROWS
                 /\ time_time(mirror'.t) - mirror'.writers[sid]._last_flush
                      < FLUSH_SEC + (mirror'.t - mirror.t)]_vars

\* the outlets resolve_streams has shown in some discovery round
Visible ==
  UNION { {mirror.rounds[r][i] : i \in DOMAIN mirror.rounds[r]} : r \in DOMAIN mirror.rounds }

Count(x, q) == Cardinality({k \in DOMAIN q : q[k] = x})

\* session_index.json of the session directory
IndexOnDisk ==
  IF mirror.session_dir \in DOMAIN mirror.disk_index
  THEN mirror.disk_index[mirror.session_dir] ELSE <<>>

\* one inlet, one writer and one entry of session_index.json for each of the
\* outlets, and none besides
MirrorsEach(outlets) ==
  /\ Len(mirror.inlets) = Cardinality(outlets)
  /\ Len(IndexOnDisk) = Cardinality(outlets)
  /\ DOMAIN mirror.writers = {o.sid : o \in outlets}
  /\ \A o \in outlets :
       /\ Count(o.sid, mirror.inlets) = 1
       /\ Count(o.sid, [k \in DOMAIN IndexOnDisk |-> IndexOnDisk[k].sid]) = 1

\* C37 as stated: after any number of discovery rounds the mirror holds one
\* inlet, one writer and one index entry for each outlet that was visible in
\* some round.
C37_EveryVisibleOutlet == MirrorsEach(Visible)

\* C37: after any number of discovery rounds the mirror holds one inlet, one
\* writer and one index entry for each outlet with a source id that was
\* visible in some round, and nothing for an outlet without a source id.
C37_OnePerSourceId == MirrorsEach({o \in Visible : o.sid # ""})

\* two rounds have shown the same outlet
C37_Witness ==
  /\ Len(mirror.rounds) = 2
  /\ mirror.rounds[1] = <<NoSid, Resp, Markers>>
  /\ mirror.rounds[2] = <<NoSid, Resp, Markers>>
  /\ Len(mirror.inlets) = 2

\* the session ids given with --session
GivenSessions == {a.session : a \in MirrorArgs} \ {""}

\* C38: a mirror started with --session <id> writes its stream files,
\* session_index.json, stop_markers.jsonl and session_end.json in the one
\* directory <out>/<id>.
C38_OneSessionDirectory ==
  (mirror.pc # "start" /\ mirror.session_dir \in GivenSessions)
    => /\ \A path \in DOMAIN mirror.files : path[1] = mirror.session_dir
       /\ DOMAIN mirror.disk_index \subseteq {mirror.session_dir}
       /\ mirror.stop_dir = mirror.session_dir
       /\ mirror.session_end \in {"", mirror.session_dir}

\* C39: the writers of two different source ids never have the same file
\* path.
C39_DistinctFiles ==
  \A a \in DOMAIN mirror.writers, b \in DOMAIN mirror.writers :
    a # b => mirror.writers[a].path # mirror.writers[b].path

\* a JSON object that is neither a marker nor a control packet
Business(j) ==
  /\ j.kind = "dict"
  /\ ~is_marker(j)
  /\ ~unhashable(Get(j.obj, "type"))
  /\ ~(isStr(Get(j.obj, "type")) /\ Get(j.obj, "type").s \in control_types)

\* C36: a datagram that is a JSON object, neither a marker nor a control
\* packet, adds one to exactly one of the counters handled, errors and unknown
\* and leaves the other two as they were; any other datagram leaves all three
\* as they were.
C36_CountedOnce ==
  [][(last'.op = "datagram" /\ steps' # steps)
       => IF Business(last'.j)
          THEN \E c \in {"cnt_handled", "cnt_errors", "cnt_unknown"} :
                 /\ hub'[c] = hub[c] + 1
                 /\ \A o \in {"cnt_handled", "cnt_errors", "cnt_unknown"} \ {c} :
                      hub'[o] = hub[o]
          ELSE \A o \in {"cnt_handled", "cnt_errors", "cnt_unknown"} : hub'[o] = hub[o]]_vars

\* C34: when the Polar worker has ended, on whichever path, its UDP socket,
\* its raw datagram log and its metrics journal have been closed.
C34_ResourcesClosed ==
  hub.pc = "exited" => (~hub.sock_open /\ ~hub.logf_open /\ ~hub.metricsf_open)

\* C33: the all-ready message is printed at most once.
C33_AllReadyOnce == sup.all_ready <= 1

\* the heartbeat lines among lines, without their leading blanks
RECURSIVE Heartbeats(_)
Heartbeats(lines) ==
  IF lines = <<>> THEN <<>>
  ELSE (IF is_heartbeat(lstrip(Head(lines))) THEN <<lstrip(Head(lines))>> ELSE <<>>)
         \o Heartbeats(Tail(lines))

C35_WitnessPrinted ==
  /\ [child |-> "HKH", line |-> "{\"hb\":\"lab\"}"] \in sup.printed
  /\ "HKH" \in DOMAIN sup.statuses

=============================================================================
